---- MODULE Spec2Model ----
(***************************************************************************)
(* DatyreDB storage kernel: page, disk manager, buffer pool, write-ahead   *)
(* log and checkpoint manager (src/src/internal/storage, internal/core).   *)
(*                                                                         *)
(* Specifications:                                                         *)
(*   Spec      buffer pool over the disk manager, every operation one      *)
(*             atomic step (each takes latch_ exclusively), with disk      *)
(*             write / read / allocation failures chosen by the           *)
(*             environment.                                                *)
(*   SpecEvict the same pool driven only by new_page / payload write /     *)
(*             unpin_page(dirty) / fetch_page, no I/O failure.             *)
(*   SpecWal   one open write-ahead log used by concurrent threads; every  *)
(*             section under write_mutex_ is one step, the steps of        *)
(*             write_txn_commit and force_all interleave.                  *)
(*   SpecCkpt  one CheckpointManager over the pool and the log: the        *)
(*             background thread, the owner thread (start / stop) and a    *)
(*             client thread; do_checkpoint advances one call at a time,   *)
(*             with WAL, page write and sync failures.                     *)
(*   SpecPin   Spec without payload writes; the result of the last call    *)
(*             and the pins taken on each resident page are recorded.      *)
(*   SpecCorrupt fetch_page / new_page / unpin_page over a data file whose *)
(*             blocks the environment can damage.                          *)
(*   SpecStop  SpecCkpt with a client that dirties no page once stop()     *)
(*             has been called.                                            *)
(*   SpecBlock a started manager, a client dirtying pages and calling      *)
(*             check_pressure; weak fairness on both threads.              *)
(*   SpecEngine one client on a StorageEngine: a session, shutdown(), and  *)
(*             a second session on the same directory; no I/O failure.     *)
(*   SpecRequest a started manager whose client calls request_checkpoint;  *)
(*             weak fairness on the background thread.                     *)
(*   SpecOversize one thread appending records, some larger than a segment.*)
(*   SpecFlush pages created and dirtied, then written by flush_pages.     *)
(*   SpecAlloc threads inside DiskManager::allocate_page concurrently.     *)
(*   SpecRecord LogRecord::serialize followed by LogRecord::deserialize.   *)
(*   SpecOpen  DiskManager::open on data files of any size in bytes.       *)
(*   SpecTrigger should_checkpoint on the statistics it reads.             *)
(*   SpecSweep new_page / fetch_page / unpin_page with the frames and the  *)
(*             clock hand found by each call recorded.                     *)
(*   SpecTruncate a checkpoint begin record, appends and truncate(lsn).    *)
(*   SpecHalt  start / stop of a manager whose background thread and       *)
(*             client run on; weak fairness on every thread.               *)
(*   SpecRotate appends of records that fill a segment exactly or overflow *)
(*             it, and truncate.                                           *)
(*   SpecReopen appends, truncate, and close followed by open.             *)
(*   SpecClean new_page / unpin_page / fetch_page, no I/O failure; the ids *)
(*             new_page handed out are recorded.                           *)
(***************************************************************************)
EXTENDS Integers, Sequences, FiniteSets, TLC

\* ---------------------------------------------------------------- bounds
PoolSize == 2       \* pool_size_ : number of frames
MaxPages == 3       \* cap on next_page_id_ (allocations stop there)
MaxPin   == 2       \* cap on a page's pin_count in the model
MaxVal   == 1       \* payload contents are 0..MaxVal (0 = zero-filled)
MaxReqLsn == 5      \* SpecRequest: checkpoints start while next_lsn_ <= MaxReqLsn
FitLen   == 12      \* data length of a record that fills a segment after a bare header
BigLen   == 80      \* data length of a record that is larger than a segment
MaxLsn   == 5       \* appends stop once next_lsn_ exceeds MaxLsn
SegmentSize == 100  \* segment_size_ : two header-only records fit in a segment
DataLen  == 20      \* payload length of a data record
BatchSize == 1      \* CheckpointConfig::batch_size
MaxCkptLsn == 3     \* no checkpoint starts once next_lsn_ exceeds MaxCkptLsn
MaxSince == 61      \* whole seconds elapsed since last_checkpoint_time_
MaxCapacity == 2    \* largest buffer_pool_->capacity() given to should_checkpoint
MaxTail  == 40      \* bytes of an existing data file past its last whole block

\* ------------------------------------------------------ program constants
\* numeric_limits<uint32_t>::max(), i.e. uint32_t(-1); no valid id ever equals it
INVALID_PAGE_ID == -1
PAYLOAD_SIZE    == 4072
HEADER_SIZE     == 44       \* LogRecordHeader::SIZE
UINT16_RANGE    == 65536    \* number of values of std::uint16_t (data_length)
PAGE_SIZE       == 4096

FrameIds == 0 .. (PoolSize - 1)
PageIds  == 0 .. (MaxPages - 1)
Payloads == 0 .. MaxVal
NoPage   == MaxVal + 1   \* history marker: id never handed out by new_page

VARIABLES
    frames,         \* BufferPool::frames_   : FrameId -> [page, referenced]
    page_table,     \* BufferPool::page_table_ : PageId -> FrameId (partial)
    free_list,      \* BufferPool::free_list_ : sequence of FrameId
    clock_hand,     \* BufferPool::clock_hand_
    dirty_count,    \* BufferPool::dirty_count_
    next_page_id,   \* DiskManager::next_page_id_
    data_file,      \* data.db : sequence of page images, slot p at index p+1
    ret,            \* result of the last buffer pool (SpecOversize: WAL) call
    last_written,   \* history: PageId -> payload last stored by a caller
    pins,           \* history: PageId -> successful pins minus unpins since its load
    alloc,          \* threads inside DiskManager::allocate_page, and the ids returned
    wal,            \* WriteAheadLog members and the segment files
    wpc,            \* per thread: where it is inside a WAL call
    wreg,           \* per thread: the LSN it holds in a local
    appended,       \* history: LSNs returned by successful appends, in order
    append_failed,  \* history: some append failed after taking its LSN
    cm,             \* CheckpointManager members (atomics and checkpoint_mutex_)
    ck,             \* per thread: its frame of do_checkpoint (locals, position)
    tpc,            \* per thread: where it is outside do_checkpoint
    cpobs,          \* history: what the last check_pressure call observed
    eng             \* StorageEngine session and what its client has released

poolVars == <<frames, page_table, free_list, clock_hand, dirty_count,
              next_page_id, data_file>>
obsVars == <<ret, last_written, pins, alloc>>
walVars == <<wal, wpc, wreg, appended, append_failed>>
walHist == <<wpc, wreg, appended, append_failed>>
ckVars  == <<cm, ck, tpc, cpobs>>
envVars == <<walVars, ckVars>>
vars == <<frames, page_table, free_list, clock_hand, dirty_count,
          next_page_id, data_file, ret, last_written, pins, alloc,
          wal, wpc, wreg, appended, append_failed, cm, ck, tpc, cpobs, eng>>

WalThreads == {1, 2}

\* ------------------------------------------------------------------ Page
\* Page::reset(): zeroed block, free_space = payload_size, no id, clean, unpinned.
EmptyPage ==
    [id |-> INVALID_PAGE_ID, dirty |-> FALSE, pin_count |-> 0,
     free_space |-> PAYLOAD_SIZE, payload |-> 0]

\* Page::reset(new_id)
ResetPage(new_id) == [EmptyPage EXCEPT !.id = new_id]

\* A slot of the data file that was only ever extended: all bytes zero.
ZeroImage == [page_id |-> 0, free_space |-> 0, payload |-> 0, checksum |-> 0]

\* Page::compute_checksum over header id, free_space and payload. CRC32 is
\* taken collision free on the model's contents; it is never 0 there (the
\* CRC32 of an all-zero block with any of the model's ids is non-zero).
compute_checksum(pid, fs, payload) ==
    1 + pid + (MaxPages + 1) * (payload + (MaxVal + 1) * (IF fs = 0 THEN 0 ELSE 1))

\* The bytes write_page puts on disk: update_checksum(), then the block.
PageImage(page) ==
    [page_id |-> page.id, free_space |-> page.free_space,
     payload |-> page.payload,
     checksum |-> compute_checksum(page.id, page.free_space, page.payload)]

\* ----------------------------------------------------------- DiskManager
\* The pool-and-disk state handed through the operators below.
PoolState ==
    [frames |-> frames, page_table |-> page_table, free_list |-> free_list,
     clock_hand |-> clock_hand, dirty_count |-> dirty_count,
     next_page_id |-> next_page_id, data_file |-> data_file]

RECURSIVE ExtendTo(_, _)
ExtendTo(file, n) == IF Len(file) >= n THEN file ELSE ExtendTo(Append(file, ZeroImage), n)

\* DiskManager::ensure_file_size
ensure_file_size(file, page_id) == ExtendTo(file, page_id + 1)

\* DiskManager::write_page; fail: the environment makes this write fail.
write_page(s, page_id, page, fail) ==
    IF fail THEN [ok |-> FALSE, s |-> s]
    ELSE [ok |-> TRUE,
          s  |-> [s EXCEPT !.data_file =
                     [ensure_file_size(s.data_file, page_id)
                         EXCEPT ![page_id + 1] = PageImage(page)]]]

\* Mutant: read_page accepts whatever checksum is stored.
ChecksumBad_Ignored(page_id, img) == FALSE

\* !page.verify_checksum() on the block just read into the page of id page_id.
ChecksumBad(page_id, img) ==
    compute_checksum(page_id, img.free_space, img.payload) # img.checksum

\* DiskManager::read_page into `page`; returns the error code and the page.
read_page(s, page_id, page, fail) ==
    IF page_id >= s.next_page_id THEN [code |-> "InvalidPageId", page |-> page]
    ELSE IF fail \/ page_id + 1 > Len(s.data_file)
         THEN [code |-> "ReadError", page |-> page]
    ELSE LET img    == s.data_file[page_id + 1]
             loaded == [page EXCEPT !.id = page_id, !.dirty = FALSE,
                                    !.free_space = img.free_space,
                                    !.payload = img.payload]
         IN IF ChecksumBad(page_id, img)
            THEN [code |-> "ChecksumMismatch", page |-> loaded]
            ELSE [code |-> "Ok", page |-> loaded]

\* DiskManager::allocate_page
allocate_page(s, fail) ==
    IF fail THEN [ok |-> FALSE, id |-> 0, s |-> s]
    ELSE [ok |-> TRUE, id |-> s.next_page_id,
          s  |-> [s EXCEPT !.next_page_id = s.next_page_id + 1,
                           !.data_file = ensure_file_size(s.data_file, s.next_page_id)]]

\* ------------------------------------------------------------ BufferPool
Erase(pt, page_id) == [q \in (DOMAIN pt) \ {page_id} |-> pt[q]]

\* Mutant: eviction drops a dirty page without writing it back.
evict_frame_NoWriteBack(s, frame_id, failW) ==
    LET page == s.frames[frame_id].page
        s1   == IF page.dirty THEN [s EXCEPT !.dirty_count = s.dirty_count - 1] ELSE s
    IN [ok |-> TRUE,
        s  |-> [s1 EXCEPT !.page_table = Erase(s1.page_table, page.id),
                          !.frames[frame_id] =
                              [page |-> EmptyPage, referenced |-> FALSE]]]

\* BufferPool::evict_frame; failW: the pages whose write the environment fails.
evict_frame(s, frame_id, failW) ==
    LET page == s.frames[frame_id].page
        w    == write_page(s, page.id, page, page.id \in failW)
        s1   == IF page.dirty
                THEN [w.s EXCEPT !.dirty_count = w.s.dirty_count - 1]
                ELSE s
    IN IF page.dirty /\ ~w.ok THEN [ok |-> FALSE, s |-> s]
       ELSE [ok |-> TRUE,
             s  |-> [s1 EXCEPT !.page_table = Erase(s1.page_table, page.id),
                               !.frames[frame_id] =
                                   [page |-> EmptyPage, referenced |-> FALSE]]]

\* Mutant: the sweep forgets the pin test.
SkipPinned_NoTest(page) == FALSE

\* The pinned test of BufferPool::clock_sweep (Page::is_pinned).
SkipPinned(page) == page.pin_count > 0

\* Mutant: a single pass, which only clears reference bits it meets.
SweepSteps_OnePass == PoolSize

\* The frames one clock_sweep visits: two passes over the pool.
SweepSteps == 2 * PoolSize

\* Mutant: a referenced frame gets no second chance.
SecondChance_Never(frame) == FALSE

\* The reference bit test of BufferPool::clock_sweep.
SecondChance(frame) == frame.referenced

\* BufferPool::clock_sweep, k = pass * pool_size + i; visited counts the
\* frames examined.
RECURSIVE clock_sweep_from(_, _, _)
clock_sweep_from(s, k, failW) ==
    IF k >= SweepSteps THEN [found |-> FALSE, frame |-> 0, s |-> s, visited |-> k]
    ELSE LET next_idx == (s.clock_hand + (k % PoolSize)) % PoolSize
             frame    == s.frames[next_idx]
         IN IF frame.page.id = INVALID_PAGE_ID THEN clock_sweep_from(s, k + 1, failW)
            ELSE IF SkipPinned(frame.page) THEN clock_sweep_from(s, k + 1, failW)
            ELSE IF SecondChance(frame)
                 THEN clock_sweep_from(
                          [s EXCEPT !.frames[next_idx].referenced = FALSE], k + 1, failW)
            ELSE LET e == evict_frame(s, next_idx, failW)
                 IN IF ~e.ok THEN clock_sweep_from(e.s, k + 1, failW)
                    ELSE [found |-> TRUE, frame |-> next_idx, visited |-> k + 1,
                          s |-> [e.s EXCEPT !.clock_hand = (next_idx + 1) % PoolSize]]

clock_sweep(s, failW) == clock_sweep_from(s, 0, failW)

\* BufferPool::find_victim
find_victim(s, failW) ==
    IF s.free_list # <<>>
    THEN [found |-> TRUE, frame |-> Head(s.free_list),
          s |-> [s EXCEPT !.free_list = Tail(s.free_list)]]
    ELSE clock_sweep(s, failW)

\* Mutant: a failed read keeps the frame it took.
ReturnFrame_Dropped(list, frame_id) == list

\* free_list_.push_back(frame_id) on the failed read of BufferPool::fetch_page.
ReturnFrame(list, frame_id) == Append(list, frame_id)

\* BufferPool::fetch_page
fetch_page(s, page_id, failR, failW) ==
    IF page_id \in DOMAIN s.page_table
    THEN LET f == s.page_table[page_id]
         IN [code |-> "Ok", frame |-> f,
             s |-> [s EXCEPT !.frames[f].page.pin_count = @ + 1,
                             !.frames[f].referenced = TRUE]]
    ELSE LET v == find_victim(s, failW)
         IN IF ~v.found THEN [code |-> "NoAvailableFrames", frame |-> 0, s |-> v.s]
            ELSE LET f == v.frame
                     r == read_page(v.s, page_id, v.s.frames[f].page, failR)
                 IN IF r.code # "Ok"
                    THEN [code |-> r.code, frame |-> f,
                          s |-> [v.s EXCEPT !.frames[f].page = r.page,
                                            !.free_list = ReturnFrame(@, f)]]
                    ELSE [code |-> "Ok", frame |-> f,
                          s |-> [v.s EXCEPT
                                   !.frames[f] =
                                       [page |-> [r.page EXCEPT !.pin_count = @ + 1,
                                                                !.dirty = FALSE],
                                        referenced |-> TRUE],
                                   !.page_table = (page_id :> f) @@ @]]

\* BufferPool::new_page
new_page(s, failA, failW) ==
    LET a == allocate_page(s, failA)
    IN IF ~a.ok THEN [code |-> "WriteError", frame |-> 0, id |-> 0, s |-> s]
       ELSE LET v == find_victim(a.s, failW)
            IN IF ~v.found
               THEN [code |-> "NoAvailableFrames", frame |-> 0, id |-> a.id, s |-> v.s]
               ELSE LET f == v.frame
                    IN [code |-> "Ok", frame |-> f, id |-> a.id,
                        s |-> [v.s EXCEPT
                                 !.frames[f] =
                                     [page |-> [ResetPage(a.id) EXCEPT !.pin_count = 1],
                                      referenced |-> TRUE],
                                 !.page_table = (a.id :> f) @@ @]]

\* Mutant: every unpin_page(.., true) counts the page as newly dirty.
NewlyDirty_Always(is_dirty, page) == is_dirty

\* The is_dirty && !frame.page.is_dirty() test of BufferPool::unpin_page.
NewlyDirty(is_dirty, page) == is_dirty /\ ~page.dirty

\* Mutant: unpin_page accepts a page nobody holds.
NothingToUnpin_Never(page) == FALSE

\* The pin_count() <= 0 test of BufferPool::unpin_page.
NothingToUnpin(page) == page.pin_count <= 0

\* BufferPool::unpin_page
unpin_page(s, page_id, is_dirty) ==
    IF page_id \notin DOMAIN s.page_table THEN [code |-> "PageNotFound", s |-> s]
    ELSE LET f    == s.page_table[page_id]
             page == s.frames[f].page
         IN IF NothingToUnpin(page) THEN [code |-> "InvalidArgument", s |-> s]
            ELSE IF NewlyDirty(is_dirty, page)
                 THEN [code |-> "Ok",
                       s |-> [s EXCEPT !.frames[f].page.pin_count = @ - 1,
                                       !.frames[f].page.dirty = TRUE,
                                       !.dirty_count = @ + 1]]
            ELSE [code |-> "Ok",
                  s |-> [s EXCEPT !.frames[f].page.pin_count = @ - 1]]

\* Mutant: a failed write still marks the page clean.
ReturnUnwritten_MarkClean(s, f) ==
    [s EXCEPT !.frames[f].page.dirty = FALSE, !.dirty_count = @ - 1]

\* flush_page returns the status of a failed write before mark_clean.
ReturnUnwritten(s, f) == s

\* BufferPool::flush_page
flush_page(s, page_id, fail) ==
    IF page_id \notin DOMAIN s.page_table THEN [code |-> "Ok", s |-> s]
    ELSE LET f    == s.page_table[page_id]
             page == s.frames[f].page
             w    == write_page(s, page_id, page, fail)
         IN IF ~page.dirty THEN [code |-> "Ok", s |-> s]
            ELSE IF ~w.ok THEN [code |-> "WriteError", s |-> ReturnUnwritten(s, f)]
            ELSE [code |-> "Ok",
                  s |-> [w.s EXCEPT !.frames[f].page.dirty = FALSE,
                                    !.dirty_count = @ - 1]]

\* Mutant: delete_page does not look at the pin count.
DeleteBlocked_Never(page) == FALSE

\* The pinned test of BufferPool::delete_page (Page::is_pinned).
DeleteBlocked(page) == page.pin_count > 0

\* BufferPool::delete_page (DiskManager::deallocate_page is a no-op)
delete_page(s, page_id) ==
    IF page_id \notin DOMAIN s.page_table THEN [code |-> "Ok", s |-> s]
    ELSE LET f    == s.page_table[page_id]
             page == s.frames[f].page
             s1   == IF page.dirty THEN [s EXCEPT !.dirty_count = @ - 1] ELSE s
         IN IF DeleteBlocked(page) THEN [code |-> "PagePinned", s |-> s]
            ELSE [code |-> "Ok",
                  s |-> [s1 EXCEPT !.page_table = Erase(s1.page_table, page_id),
                                   !.frames[f] = [page |-> EmptyPage, referenced |-> FALSE],
                                   !.free_list = Append(@, f)]]

\* --------------------------------------------------------- WriteAheadLog
\* A log record as append is given it: type, prev_lsn, length of its data.
LogRecord(type, prev_lsn, data_length) ==
    [type |-> type, prev_lsn |-> prev_lsn, data_length |-> data_length]

\* LogRecord::serialized_size
serialized_size(rec) == HEADER_SIZE + rec.data_length

RECURSIVE SumSizes(_)
SumSizes(recs) == IF recs = <<>> THEN 0 ELSE Head(recs).size + SumSizes(Tail(recs))

\* std::filesystem::file_size of a segment file
file_size(w, seg_id) == SumSizes(w.files[seg_id])

\* WriteAheadLog::find_segments: the ids of the segment files (sorted by use).
find_segments(w) == DOMAIN w.files

\* WriteAheadLog::rotate_segment; fail: the new file cannot be created.
rotate_segment(w, fail) ==
    LET w1 == [w EXCEPT !.current_segment_id = @ + 1, !.current_segment_pos = 0]
    IN IF fail THEN [ok |-> FALSE, w |-> [w1 EXCEPT !.stream_good = FALSE]]
       ELSE [ok |-> TRUE,
             w  |-> [w1 EXCEPT !.stream_good = TRUE,
                               !.files = (w1.current_segment_id :> <<>>) @@ @]]

\* Mutant: the LSN is read but the counter is not advanced.
assign_lsn_NoAdvance(w) == w

\* next_lsn_.fetch_add(1) in WriteAheadLog::append
assign_lsn(w) == [w EXCEPT !.next_lsn = @ + 1]

\* Mutant: a record that would exactly fill the segment rotates the log too.
NeedsRotation_AtLimit(w, size) == w.current_segment_pos + size >= SegmentSize

\* The rotation test of WriteAheadLog::append.
NeedsRotation(w, size) == w.current_segment_pos + size > SegmentSize

\* WriteAheadLog::append; failRot, failWr: the rotation / the write fails.
append(w, rec, failRot, failWr) ==
    IF ~w.is_open THEN [code |-> "IoError", lsn |-> 0, w |-> w]
    ELSE LET lsn  == w.next_lsn
             w1   == assign_lsn(w)
             size == serialized_size(rec)
             rot  == IF NeedsRotation(w1, size)
                     THEN rotate_segment(w1, failRot)
                     ELSE [ok |-> TRUE, w |-> w1]
             w2   == rot.w
             item == [lsn |-> lsn, type |-> rec.type, prev_lsn |-> rec.prev_lsn,
                      size |-> size]
         IN IF ~rot.ok THEN [code |-> "IoError", lsn |-> lsn, w |-> w2]
            ELSE IF failWr \/ ~w2.stream_good
                 THEN [code |-> "WriteError", lsn |-> lsn,
                       w |-> [w2 EXCEPT !.stream_good = FALSE]]
            ELSE [code |-> "Ok", lsn |-> lsn,
                  w |-> [w2 EXCEPT
                           !.files[w2.current_segment_id] = Append(@, item),
                           !.current_segment_pos = @ + size,
                           !.total_size = @ + size]]

\* Mutant: force publishes the LSN before the one it was given.
publish_flushed_Stale(w, lsn) == [w EXCEPT !.flushed_lsn = lsn - 1]

\* flushed_lsn_.store(lsn) in WriteAheadLog::force
publish_flushed(w, lsn) == [w EXCEPT !.flushed_lsn = lsn]

\* WriteAheadLog::force; fail: the flush fails.
force(w, lsn, fail) ==
    IF ~w.is_open THEN [code |-> "IoError", w |-> w]
    ELSE IF fail \/ ~w.stream_good
         THEN [code |-> "SyncError", w |-> [w EXCEPT !.stream_good = FALSE]]
    ELSE [code |-> "Ok", w |-> publish_flushed(w, lsn)]

RECURSIVE FreedBytes(_, _)
FreedBytes(w, ids) ==
    IF ids = {} THEN 0
    ELSE LET i == CHOOSE x \in ids : TRUE
         IN file_size(w, i) + FreedBytes(w, ids \ {i})

\* Mutant: truncate's loop stops one segment later.
BeyondLoop_LastOnly(segments, i) == Cardinality({j \in segments : j > i}) < 1

\* Segment i lies at or after index size() - 2 of the sorted list, where
\* truncate's loop does not go.
BeyondLoop(segments, i) == Cardinality({j \in segments : j > i}) < 2

\* Mutant: truncate leaves total_size_ as it was.
SubtractFreed_Keep(total, freed) == total

\* total_size_.fetch_sub(freed) in WriteAheadLog::truncate
SubtractFreed(total, freed) == total - freed

\* WriteAheadLog::truncate: removes all but the last two segments, never the
\* current one; the lsn argument is not used.
truncate(w, lsn) ==
    IF ~w.is_open THEN [code |-> "IoError", w |-> w]
    ELSE LET segments == find_segments(w)
             removed  == {i \in segments :
                             /\ ~BeyondLoop(segments, i)
                             /\ i # w.current_segment_id}
         IN IF Cardinality(segments) <= 2 THEN [code |-> "Ok", w |-> w]
            ELSE [code |-> "Ok",
                  w |-> [w EXCEPT !.files = [i \in segments \ removed |-> w.files[i]],
                                  !.total_size = SubtractFreed(@, FreedBytes(w, removed))]]

\* WriteAheadLog after open() on an empty directory: segment 0, offset 0.
OpenedWal ==
    [is_open |-> TRUE, next_lsn |-> 1, flushed_lsn |-> 0, total_size |-> 0,
     current_segment_id |-> 0, current_segment_pos |-> 0, stream_good |-> TRUE,
     files |-> (0 :> <<>>)]

\* ------------------------------------------------------ CheckpointManager
\* The threads that call into one CheckpointManager: its background thread,
\* the owner thread (start / stop) and a client thread.
CkThreads == {"bg", "main", "caller"}

\* CheckpointConfig of the model: limits in percent of the pool capacity,
\* intervals in seconds.
config_ ==
    [max_interval |-> 60, min_interval |-> 5, max_wal_size |-> 2 * HEADER_SIZE,
     dirty_soft_limit |-> 50, dirty_hard_limit |-> 100, batch_size |-> BatchSize]

\* CheckpointManager after construction: not running, nothing requested;
\* block_cv : the threads asleep in block_cv_.wait.
NewManager ==
    [running |-> FALSE, checkpoint_requested |-> FALSE,
     checkpoint_in_progress |-> FALSE, blocking |-> FALSE,
     checkpoint_mutex |-> "free", block_cv |-> {}]

\* The frame of a thread that is not inside do_checkpoint.
NoCheckpoint ==
    [pc |-> "none", trigger |-> "Manual", begin_lsn |-> 0, end_lsn |-> 0,
     dirty_pages |-> <<>>, i |-> 0, j |-> 0, status |-> "Ok",
     events |-> <<>>, unwritten |-> {}, recorded |-> 0]

NoPressureCall == [entry |-> FALSE, waited |-> FALSE, saw |-> FALSE, result |-> FALSE]

\* The same tests with the minimum interval examined before the hard limit.
should_checkpoint_IntervalFirst(since_last, dirty, capacity, wal_size) ==
    IF since_last < config_.min_interval THEN "nullopt"
    ELSE IF dirty * 100 >= config_.dirty_hard_limit * capacity THEN "DirtyHard"
    ELSE IF wal_size >= config_.max_wal_size THEN "WalSize"
    ELSE IF dirty * 100 >= config_.dirty_soft_limit * capacity THEN "DirtySoft"
    ELSE IF since_last >= config_.max_interval THEN "Timer"
    ELSE "nullopt"

\* CheckpointManager::should_checkpoint; since_last in seconds.
should_checkpoint(since_last, dirty, capacity, wal_size) ==
    IF dirty * 100 >= config_.dirty_hard_limit * capacity THEN "DirtyHard"
    ELSE IF since_last < config_.min_interval THEN "nullopt"
    ELSE IF wal_size >= config_.max_wal_size THEN "WalSize"
    ELSE IF dirty * 100 >= config_.dirty_soft_limit * capacity THEN "DirtySoft"
    ELSE IF since_last >= config_.max_interval THEN "Timer"
    ELSE "nullopt"

\* do_checkpoint's entry: checkpoint_in_progress_ and, for DirtyHard, blocking_.
EnterCheckpoint(m, trigger) ==
    [m EXCEPT !.checkpoint_in_progress = TRUE,
              !.blocking = IF trigger = "DirtyHard" THEN TRUE ELSE @]

\* do_checkpoint's exits: both flags cleared, block_cv_ notified.
LeaveCheckpoint(m) ==
    [m EXCEPT !.checkpoint_in_progress = FALSE, !.blocking = FALSE,
              !.block_cv = {}]

\* The test of the flush loop that ends it early.
Interrupted_AnyTrigger(m, trigger) == ~m.running

Interrupted(m, trigger) == ~m.running /\ trigger # "Shutdown"

\* The test after buffer_pool_->sync().
SyncFailed_Ignored(fail) == FALSE

SyncFailed(fail) == fail

\* Mutant: the background loop never sees running_ cleared.
LoopEnds_Never(m) == FALSE

\* The tests of running_ in background_loop: the while condition and the
\* break after the wait.
LoopEnds(m) == ~m.running

\* Mutant: the background loop never sees a request.
Requested_Never(m) == FALSE

\* checkpoint_requested_ as background_loop's exchange(false) returns it.
Requested(m) == m.checkpoint_requested

\* The predicate check_pressure waits for.
PressureOver_Always(m) == TRUE

PressureOver(m) == ~m.blocking \/ ~m.running

\* The orders in which an unordered_map can hand out the members of S.
Orders(S) ==
    {q \in [1 .. Cardinality(S) -> S] : \A a, b \in 1 .. Cardinality(S) : a # b => q[a] # q[b]}

\* ---------------------------------------------------------- StorageEngine
\* A StorageEngine after its first initialize(); `released` : the payload each
\* page had at its last release_page, for the pages released with
\* modified = true; `touched` : pages the client wrote under its current pin.
NewEngine ==
    [phase |-> "up", touched |-> {}, page_count |-> 0,
     released |-> [p \in PageIds |-> NoPage]]

\* BufferPool::flush_pages; failW: the pages whose write the environment
\* fails. The loop returns the first failed status.
RECURSIVE flush_pages(_, _, _)
flush_pages(s, page_ids, failW) ==
    IF page_ids = <<>> THEN [code |-> "Ok", s |-> s]
    ELSE LET r == flush_page(s, Head(page_ids), Head(page_ids) \in failW)
         IN IF r.code # "Ok" THEN r
            ELSE flush_pages(r.s, Tail(page_ids), failW)

\* A flush that marks the page clean without writing it.
flush_all_NoWrite(s, dirty_pages) ==
    [s EXCEPT !.dirty_count = 0,
              !.frames = [f \in FrameIds |-> [s.frames[f] EXCEPT !.page.dirty = FALSE]]]

\* The pool after the flushes of one undisturbed checkpoint and of ~BufferPool.
flush_all(s, dirty_pages) == flush_pages(s, dirty_pages, {}).s

\* do_checkpoint run by one thread with nothing else running and no I/O
\* failure: the pool and the WAL it leaves.
do_checkpoint(s, w, dirty_pages, m, trigger) ==
    LET b == append(w, LogRecord("CheckpointBegin", 0, 0), FALSE, FALSE)
        e == append(b.w, LogRecord("CheckpointEnd", b.lsn, 0), FALSE, FALSE)
        f == force(e.w, e.lsn, FALSE)
    IN IF dirty_pages = <<>> THEN [s |-> s, w |-> f.w]
       ELSE [s |-> IF Interrupted(m, trigger) THEN s ELSE flush_all(s, dirty_pages),
             w |-> truncate(f.w, b.lsn).w]

\* WriteAheadLog::close
close(w) == [w EXCEPT !.is_open = FALSE]

\* A new WriteAheadLog opened on the directory w leaves behind.
open(w) ==
    LET last == CHOOSE i \in DOMAIN w.files : \A k \in DOMAIN w.files : k <= i
    IN [OpenedWal EXCEPT !.files = w.files,
                         !.current_segment_id = last,
                         !.current_segment_pos = file_size(w, last),
                         !.total_size = FreedBytes(w, DOMAIN w.files)]

\* --------------------------------------------------------------- actions
\* The threads that call DiskManager::allocate_page directly.
DiskThreads == {1, 2}

\* Nobody inside allocate_page, nothing returned yet. new_id: the local of
\* each call; returned: the ids of the successful calls, in return order.
NoAllocation ==
    [pc |-> [t \in DiskThreads |-> "idle"], new_id |-> [t \in DiskThreads |-> 0],
     returned |-> <<>>]

\* ret when the last step was not a buffer pool call.
NoCall == [op |-> "none", arg |-> 0, code |-> "Ok"]

\* The resident dirty pages: the only writes an eviction or a flush can issue.
DirtyResident == {p \in DOMAIN page_table : frames[page_table[p]].page.dirty}

SetPool(s) ==
    /\ frames' = s.frames
    /\ page_table' = s.page_table
    /\ free_list' = s.free_list
    /\ clock_hand' = s.clock_hand
    /\ dirty_count' = s.dirty_count
    /\ next_page_id' = s.next_page_id
    /\ data_file' = s.data_file

\* BufferPool::BufferPool over a freshly opened, empty data file.
Init ==
    /\ frames = [f \in FrameIds |-> [page |-> EmptyPage, referenced |-> FALSE]]
    /\ page_table = <<>>
    /\ free_list = [i \in 1 .. PoolSize |-> i - 1]
    /\ clock_hand = 0
    /\ dirty_count = 0
    /\ next_page_id = 0
    /\ data_file = <<>>
    /\ ret = NoCall
    /\ last_written = [p \in PageIds |-> NoPage]
    /\ pins = [p \in PageIds |-> 0]
    /\ alloc = NoAllocation
    /\ wal = OpenedWal
    /\ wpc = [t \in WalThreads |-> "idle"]
    /\ wreg = [t \in WalThreads |-> 0]
    /\ appended = <<>>
    /\ append_failed = FALSE
    /\ cm = NewManager
    /\ ck = [t \in CkThreads |-> NoCheckpoint]
    /\ tpc = [t \in CkThreads |-> IF t = "bg" THEN "off" ELSE "idle"]
    /\ cpobs = NoPressureCall
    /\ eng = NewEngine

\* ret' for a call `op` on `arg` that ended with `code`.
Returned(op, arg, code) == ret' = [op |-> op, arg |-> arg, code |-> code]

\* The model's caps on the pin count and on the number of allocated pages.
PinCapOk(r) == r.code = "Ok" => r.s.frames[r.frame].page.pin_count <= MaxPin
AllocCapOk  == next_page_id < MaxPages

\* A caller holding a pin stores v into the payload through its Page*.
WritePayloadStep(page_id, v) ==
    /\ page_id \in DOMAIN page_table
    /\ frames[page_table[page_id]].page.pin_count > 0
    /\ frames' = [frames EXCEPT ![page_table[page_id]].page.payload = v]
    /\ UNCHANGED <<page_table, free_list, clock_hand, dirty_count, next_page_id, data_file>>

\* ---- Spec: every buffer pool operation, with I/O failures; results and
\* ---- payload history are not recorded.
FetchPage ==
    \E p \in 0 .. MaxPages, failR \in BOOLEAN, failW \in SUBSET DirtyResident :
        LET r == fetch_page(PoolState, p, failR, failW)
        IN PinCapOk(r) /\ SetPool(r.s) /\ UNCHANGED <<obsVars, walVars, ckVars, eng>>

NewPage ==
    \E failA \in BOOLEAN, failW \in SUBSET DirtyResident :
        LET r == new_page(PoolState, failA, failW)
        IN AllocCapOk /\ SetPool(r.s) /\ UNCHANGED <<obsVars, walVars, ckVars, eng>>

Unpin ==
    \E p \in PageIds, d \in BOOLEAN :
        SetPool(unpin_page(PoolState, p, d).s) /\ UNCHANGED <<obsVars, walVars, ckVars, eng>>

Flush ==
    \E p \in PageIds, fail \in BOOLEAN :
        SetPool(flush_page(PoolState, p, fail).s) /\ UNCHANGED <<obsVars, walVars, ckVars, eng>>

Delete ==
    \E p \in PageIds :
        SetPool(delete_page(PoolState, p).s) /\ UNCHANGED <<obsVars, walVars, ckVars, eng>>

Write ==
    \E p \in PageIds, v \in Payloads :
        WritePayloadStep(p, v) /\ UNCHANGED <<obsVars, walVars, ckVars, eng>>

Next == FetchPage \/ NewPage \/ Unpin \/ Flush \/ Delete \/ Write

Spec == Init /\ [][Next]_vars

\* ---- SpecEvict: new_page / payload write / unpin_page(dirty) / fetch_page,
\* ---- no I/O failure; results and the payload history are recorded.
EvNewPage ==
    LET r == new_page(PoolState, FALSE, {})
    IN /\ AllocCapOk /\ SetPool(r.s) /\ Returned("new_page", r.id, r.code)
       /\ last_written' = IF r.code = "Ok" THEN [last_written EXCEPT ![r.id] = 0]
                          ELSE last_written
       /\ UNCHANGED <<pins, alloc, walVars, ckVars, eng>>

EvWrite ==
    \E p \in PageIds, v \in Payloads :
        /\ WritePayloadStep(p, v)
        /\ ret' = NoCall
        /\ last_written' = [last_written EXCEPT ![p] = v]
        /\ UNCHANGED <<pins, alloc, walVars, ckVars, eng>>

EvUnpin ==
    \E p \in PageIds :
        LET r == unpin_page(PoolState, p, TRUE)
        IN /\ SetPool(r.s) /\ Returned("unpin_page", p, r.code)
           /\ UNCHANGED <<last_written, pins, alloc, walVars, ckVars, eng>>

EvFetch ==
    \E p \in PageIds :
        LET r == fetch_page(PoolState, p, FALSE, {})
        IN /\ PinCapOk(r) /\ SetPool(r.s) /\ Returned("fetch_page", p, r.code)
           /\ UNCHANGED <<last_written, pins, alloc, walVars, ckVars, eng>>

NextEvict == EvNewPage \/ EvWrite \/ EvUnpin \/ EvFetch

SpecEvict == Init /\ [][NextEvict]_vars

\* ---- SpecPin: every buffer pool operation, with I/O failures; the result of
\* ---- the last call and the pins taken on each resident page are recorded.
\* No page id: the call pinned or unpinned nothing.
NoPin == MaxPages + 1

\* pins after a call that left the pool in s: `got` is the page the call
\* pinned (NoPin: none), `put` the page it unpinned.
NotePins(s, got, put) ==
    pins' = [q \in PageIds |->
                IF q \notin DOMAIN s.page_table THEN 0
                ELSE IF q = got
                     THEN (IF q \in DOMAIN page_table THEN pins[q] + 1 ELSE 1)
                ELSE IF q = put THEN pins[q] - 1
                ELSE pins[q]]

PinFetch ==
    \E p \in 0 .. MaxPages, failR \in BOOLEAN, failW \in SUBSET DirtyResident :
        LET r == fetch_page(PoolState, p, failR, failW)
        IN /\ PinCapOk(r) /\ SetPool(r.s) /\ Returned("fetch_page", p, r.code)
           /\ NotePins(r.s, IF r.code = "Ok" THEN p ELSE NoPin, NoPin)
           /\ UNCHANGED <<last_written, alloc, walVars, ckVars, eng>>

PinNewPage ==
    \E failA \in BOOLEAN, failW \in SUBSET DirtyResident :
        LET r == new_page(PoolState, failA, failW)
        IN /\ AllocCapOk /\ SetPool(r.s) /\ Returned("new_page", r.id, r.code)
           /\ NotePins(r.s, IF r.code = "Ok" THEN r.id ELSE NoPin, NoPin)
           /\ UNCHANGED <<last_written, alloc, walVars, ckVars, eng>>

PinUnpin ==
    \E p \in PageIds, d \in BOOLEAN :
        LET r == unpin_page(PoolState, p, d)
        IN /\ SetPool(r.s) /\ Returned("unpin_page", p, r.code)
           /\ NotePins(r.s, NoPin, IF r.code = "Ok" THEN p ELSE NoPin)
           /\ UNCHANGED <<last_written, alloc, walVars, ckVars, eng>>

PinFlush ==
    \E p \in PageIds, fail \in BOOLEAN :
        LET r == flush_page(PoolState, p, fail)
        IN /\ SetPool(r.s) /\ Returned("flush_page", p, r.code)
           /\ NotePins(r.s, NoPin, NoPin)
           /\ UNCHANGED <<last_written, alloc, walVars, ckVars, eng>>

PinDelete ==
    \E p \in PageIds :
        LET r == delete_page(PoolState, p)
        IN /\ SetPool(r.s) /\ Returned("delete_page", p, r.code)
           /\ NotePins(r.s, NoPin, NoPin)
           /\ UNCHANGED <<last_written, alloc, walVars, ckVars, eng>>

NextPin == PinFetch \/ PinNewPage \/ PinUnpin \/ PinFlush \/ PinDelete

SpecPin == Init /\ [][NextPin]_vars

\* ---- SpecFlush: pages created, dirtied and written by flush_pages, with
\* ---- write failures; the arguments and the result of the last flush_pages
\* ---- are recorded.
FlPages ==
    \E T \in SUBSET PageIds, failW \in SUBSET DirtyResident :
        \E ids \in Orders(T) :
            LET r == flush_pages(PoolState, ids, failW)
            IN /\ SetPool(r.s)
               /\ ret' = [op |-> "flush_pages", arg |-> ids, code |-> r.code,
                          failed |-> failW, dirty |-> DirtyResident]
               /\ UNCHANGED <<last_written, pins, alloc, walVars, ckVars, eng>>

NextFlush == EvNewPage \/ EvUnpin \/ FlPages

SpecFlush == Init /\ [][NextFlush]_vars

\* ---- SpecCorrupt: pages created, unpinned, evicted and fetched again over a
\* ---- data file whose blocks can be damaged.
\* The environment damages the stored copy of a page: the block reads as
\* zeroes, or its contents stay and the stored checksum is lost.
PinCorrupt ==
    \E p \in PageIds, zeroed \in BOOLEAN :
        /\ p + 1 <= Len(data_file)
        /\ data_file' = [data_file EXCEPT ![p + 1] =
                             IF zeroed THEN ZeroImage ELSE [@ EXCEPT !.checksum = 0]]
        /\ ret' = NoCall
        /\ UNCHANGED <<frames, page_table, free_list, clock_hand, dirty_count,
                       next_page_id, last_written, pins, alloc, walVars, ckVars, eng>>

NextCorrupt == PinFetch \/ PinNewPage \/ PinUnpin \/ PinCorrupt

SpecCorrupt == Init /\ [][NextCorrupt]_vars

\* ---- SpecAlloc: threads calling DiskManager::allocate_page concurrently;
\* ---- the fetch_add and the section under io_mutex_ are separate steps.
\* PageId new_id = next_page_id_.fetch_add(1)
AllocFetchAdd(t) ==
    /\ alloc.pc[t] = "idle"
    /\ AllocCapOk
    /\ next_page_id' = next_page_id + 1
    /\ alloc' = [alloc EXCEPT !.pc[t] = "extend", !.new_id[t] = next_page_id]
    /\ UNCHANGED <<frames, page_table, free_list, clock_hand, dirty_count, data_file,
                   ret, last_written, pins, walVars, ckVars, eng>>

\* ensure_file_size(new_id) under io_mutex_; on failure the counter is
\* rolled back with fetch_sub(1) and the call returns the error.
AllocExtend(t) ==
    \E fail \in BOOLEAN :
        /\ alloc.pc[t] = "extend"
        /\ IF fail
           THEN /\ next_page_id' = next_page_id - 1
                /\ data_file' = data_file
                /\ alloc' = [alloc EXCEPT !.pc[t] = "idle"]
           ELSE /\ next_page_id' = next_page_id
                /\ data_file' = ensure_file_size(data_file, alloc.new_id[t])
                /\ alloc' = [alloc EXCEPT !.pc[t] = "idle",
                                          !.returned = Append(@, alloc.new_id[t])]
        /\ UNCHANGED <<frames, page_table, free_list, clock_hand, dirty_count,
                       ret, last_written, pins, walVars, ckVars, eng>>

NextAlloc == \E t \in DiskThreads : AllocFetchAdd(t) \/ AllocExtend(t)

SpecAlloc == Init /\ [][NextAlloc]_vars

\* ---- SpecClean: new_page / unpin_page(clean or dirty) / fetch_page of
\* ---- created pages, no I/O failure; the result of the last call and the
\* ---- ids returned by new_page are recorded.
ClNewPage ==
    LET r == new_page(PoolState, FALSE, {})
    IN /\ AllocCapOk /\ SetPool(r.s) /\ Returned("new_page", r.id, r.code)
       /\ last_written' = IF r.code = "Ok" THEN [last_written EXCEPT ![r.id] = 0]
                          ELSE last_written
       /\ UNCHANGED <<pins, alloc, walVars, ckVars, eng>>

ClUnpin ==
    \E p \in PageIds, d \in BOOLEAN :
        LET r == unpin_page(PoolState, p, d)
        IN /\ SetPool(r.s) /\ Returned("unpin_page", p, r.code)
           /\ UNCHANGED <<last_written, pins, alloc, walVars, ckVars, eng>>

ClFetch ==
    \E p \in PageIds :
        LET r == fetch_page(PoolState, p, FALSE, {})
        IN /\ p < next_page_id /\ PinCapOk(r) /\ SetPool(r.s)
           /\ Returned("fetch_page", p, r.code)
           /\ UNCHANGED <<last_written, pins, alloc, walVars, ckVars, eng>>

NextClean == ClNewPage \/ ClUnpin \/ ClFetch

SpecClean == Init /\ [][NextClean]_vars

\* ---- SpecSweep: new_page / fetch_page / unpin_page with disk failures; each
\* ---- call records its result together with the frames, the clock hand and
\* ---- the free list it found.
Observed(op, arg, code) ==
    ret' = [op |-> op, arg |-> arg, code |-> code, before |-> frames,
            hand |-> clock_hand, full |-> free_list = <<>>]

SwNewPage ==
    \E failA \in BOOLEAN, failW \in SUBSET DirtyResident :
        LET r == new_page(PoolState, failA, failW)
        IN /\ AllocCapOk /\ SetPool(r.s) /\ Observed("new_page", r.id, r.code)
           /\ UNCHANGED <<last_written, pins, alloc, walVars, ckVars, eng>>

SwFetch ==
    \E p \in PageIds, failR \in BOOLEAN, failW \in SUBSET DirtyResident :
        LET r == fetch_page(PoolState, p, failR, failW)
        IN /\ p < next_page_id /\ PinCapOk(r) /\ SetPool(r.s)
           /\ Observed("fetch_page", p, r.code)
           /\ UNCHANGED <<last_written, pins, alloc, walVars, ckVars, eng>>

SwUnpin ==
    \E p \in PageIds, d \in BOOLEAN :
        LET r == unpin_page(PoolState, p, d)
        IN /\ SetPool(r.s) /\ Observed("unpin_page", p, r.code)
           /\ UNCHANGED <<last_written, pins, alloc, walVars, ckVars, eng>>

NextSweep == SwNewPage \/ SwFetch \/ SwUnpin

SpecSweep == Init /\ [][NextSweep]_vars

\* ---- SpecTrigger: CheckpointManager::should_checkpoint evaluated on the
\* ---- statistics it reads: seconds since the last checkpoint, dirty_count and
\* ---- capacity of the pool, size of the WAL. The inputs and the trigger
\* ---- returned are recorded.
TriggerInputs ==
    [since_last : 0 .. MaxSince,
     capacity   : 1 .. MaxCapacity,
     dirty      : 0 .. MaxCapacity,
     wal_size   : {0, config_.max_wal_size - 1, config_.max_wal_size,
                   config_.max_wal_size + HEADER_SIZE}]

ShouldCheckpoint ==
    \E in \in TriggerInputs :
        /\ in.dirty <= in.capacity
        /\ ret' = [op |-> "should_checkpoint", arg |-> in,
                   code |-> should_checkpoint(in.since_last, in.dirty,
                                              in.capacity, in.wal_size)]
        /\ UNCHANGED <<poolVars, last_written, pins, alloc, walVars, ckVars, eng>>

SpecTrigger == Init /\ [][ShouldCheckpoint]_vars

\* ---- SpecOpen: DiskManager::open on a data directory the environment has
\* ---- prepared: no data file, or a data file of some size in bytes; directory
\* ---- creation and file opening can fail. The size found and the result are
\* ---- recorded.
FileSizes == {k * PAGE_SIZE + d : k \in 0 .. MaxPages, d \in 0 .. MaxTail}

\* DiskManager::open on a closed manager. exists: the data file is there;
\* bytes_found: its size in bytes (tellg at the end of the file); dir_fail:
\* create_directories reports an error; open_fail: the stream cannot be
\* opened (nor the file created).
disk_open(exists, bytes_found, dir_fail, open_fail) ==
    IF dir_fail THEN [code |-> "IoError", is_open |-> FALSE, next_page_id |-> 0]
    ELSE IF open_fail THEN [code |-> "IoError", is_open |-> FALSE, next_page_id |-> 0]
    ELSE LET size == IF exists THEN bytes_found ELSE 0
         IN [code |-> "Ok", is_open |-> TRUE, next_page_id |-> size \div PAGE_SIZE]

OpenDataFile ==
    \E exists, dir_fail, open_fail \in BOOLEAN : \E bytes_found \in FileSizes :
        LET o == disk_open(exists, bytes_found, dir_fail, open_fail)
            size == IF exists THEN bytes_found ELSE 0
        IN /\ ret' = [op |-> "open", arg |-> size, code |-> o.code,
                      is_open |-> o.is_open, page_count |-> o.next_page_id]
           /\ next_page_id' = o.next_page_id
           /\ data_file' = ExtendTo(<<>>, size \div PAGE_SIZE)
           /\ UNCHANGED <<frames, page_table, free_list, clock_hand, dirty_count,
                          last_written, pins, alloc, walVars, ckVars, eng>>

SpecOpen == Init /\ [][OpenDataFile]_vars

\* ---- SpecRecord: LogRecord::serialize followed by LogRecord::deserialize on
\* ---- records drawn from RecordInputs; the record and the result are kept.
\* A record's data: `len` bytes, all equal to `fill`.
Bytes(len, fill) == [len |-> len, fill |-> IF len = 0 THEN 0 ELSE fill]

\* The first n bytes of d.
Prefix(d, n) == Bytes(IF n < d.len THEN n ELSE d.len, d.fill)

\* The data lengths tried: none, a small one, and the ones around 2^16.
DataLens == {0, DataLen, UINT16_RANGE - 1, UINT16_RANGE, UINT16_RANGE + DataLen}

RecordInputs ==
    [type : {"Insert", "TxnCommit", "CheckpointEnd"}, lsn : {1}, txn_id : {0, 1},
     prev_lsn : {0, 1}, page_id : {0, 1}, offset : {0, 1}, length : {0},
     data_length : {0}, checksum : {0},
     data : {Bytes(n, b) : n \in DataLens, b \in {1, 2}}]

\* compute_crc32 over a header with its checksum field zeroed and the data;
\* taken collision free: the value stands for the bytes it was computed over.
compute_crc32(hdr, data) == <<[hdr EXCEPT !.checksum = 0, !.data = 0], data>>

\* LogRecord::serialize: the buffer as header fields, data bytes and size.
\* length is a uint32 (44 + len stays below 2^32 for the lengths tried),
\* data_length a uint16.
serialize(r) ==
    LET hdr == [r EXCEPT !.length = HEADER_SIZE + r.data.len,
                         !.data_length = r.data.len % UINT16_RANGE,
                         !.checksum = 0]
    IN [hdr  |-> [hdr EXCEPT !.checksum = compute_crc32(hdr, r.data), !.data = 0],
        data |-> r.data,
        size |-> HEADER_SIZE + r.data.len]

\* LogRecord::verify_checksum
verify_checksum(r) == compute_crc32(r, r.data) = r.checksum

\* LogRecord::deserialize
deserialize(buffer) ==
    IF buffer.size < HEADER_SIZE THEN [code |-> "WalCorrupted", record |-> 0]
    ELSE IF buffer.hdr.length > buffer.size THEN [code |-> "WalCorrupted", record |-> 0]
    ELSE LET rec == [buffer.hdr EXCEPT
                        !.data = Prefix(buffer.data, buffer.hdr.data_length)]
         IN IF ~verify_checksum(rec) THEN [code |-> "WalCorrupted", record |-> rec]
            ELSE [code |-> "Ok", record |-> rec]

RoundTrip ==
    \E r \in RecordInputs :
        LET d == deserialize(serialize(r))
        IN /\ ret' = [op |-> "deserialize", arg |-> r, code |-> d.code,
                      record |-> d.record]
           /\ UNCHANGED <<poolVars, last_written, pins, alloc, walVars, ckVars, eng>>

SpecRecord == Init /\ [][RoundTrip]_vars

\* ---- SpecWal: threads calling into one open WriteAheadLog
WalIdle(t) == wpc[t] = "idle"
LsnCapOk   == wal.next_lsn <= MaxLsn

\* What an append call leaves in the history variables.
NoteAppend(r) ==
    /\ appended' = IF r.code = "Ok" THEN Append(appended, r.lsn) ELSE appended
    /\ append_failed' = (append_failed \/ r.code \in {"WriteError"} \/
                         (r.code = "IoError" /\ wal.is_open))

\* append(record) of a data record
WAppend(t) ==
    \E len \in {DataLen}, failRot \in BOOLEAN, failWr \in BOOLEAN :
        LET r == append(wal, LogRecord("Insert", 0, len), failRot, failWr)
        IN /\ WalIdle(t) /\ LsnCapOk
           /\ wal' = r.w
           /\ NoteAppend(r)
           /\ UNCHANGED <<wpc, wreg>>

\* force(lsn) with an LSN the caller got from an earlier append
WForce(t) ==
    \E k \in 1 .. Len(appended), fail \in BOOLEAN :
      LET lsn == appended[k] IN
        /\ WalIdle(t)
        /\ wal' = force(wal, lsn, fail).w
        /\ UNCHANGED <<wpc, wreg, appended, append_failed>>

\* force_all: next_lsn_.load() - 1 is read before force takes the mutex
WForceAllRead(t) ==
    /\ WalIdle(t)
    /\ wreg' = [wreg EXCEPT ![t] = wal.next_lsn - 1]
    /\ wpc' = [wpc EXCEPT ![t] = "force_all"]
    /\ UNCHANGED <<wal, appended, append_failed>>

WForceAllForce(t) ==
    \E fail \in BOOLEAN :
        /\ wpc[t] = "force_all"
        /\ wal' = force(wal, wreg[t], fail).w
        /\ wpc' = [wpc EXCEPT ![t] = "idle"]
        /\ wreg' = [wreg EXCEPT ![t] = 0]
        /\ UNCHANGED <<appended, append_failed>>

\* The append of write_txn_commit / write_checkpoint_end; `next`: where the
\* thread goes when the append succeeded.
AppendThenForce(t, rec, next) ==
    \E failRot \in BOOLEAN, failWr \in BOOLEAN :
        LET r == append(wal, rec, failRot, failWr)
        IN /\ WalIdle(t) /\ LsnCapOk
           /\ wal' = r.w
           /\ NoteAppend(r)
           /\ wpc' = [wpc EXCEPT ![t] = IF r.code = "Ok" THEN next ELSE "idle"]
           /\ wreg' = [wreg EXCEPT ![t] = IF r.code = "Ok" THEN r.lsn ELSE 0]

\* The force(*result) of write_txn_commit / write_checkpoint_end.
ForceResult(t, at, next) ==
    \E fail \in BOOLEAN :
        LET r == force(wal, wreg[t], fail)
        IN /\ wpc[t] = at
           /\ wal' = r.w
           /\ wpc' = [wpc EXCEPT ![t] = IF r.code = "Ok" THEN next ELSE "idle"]
           /\ wreg' = [wreg EXCEPT ![t] = IF r.code = "Ok" THEN @ ELSE 0]
           /\ UNCHANGED <<appended, append_failed>>

\* The call returns its LSN to the caller.
ReturnLsn(t, at) ==
    /\ wpc[t] = at
    /\ wpc' = [wpc EXCEPT ![t] = "idle"]
    /\ wreg' = [wreg EXCEPT ![t] = 0]
    /\ UNCHANGED <<wal, appended, append_failed>>

WCommitAppend(t) == AppendThenForce(t, LogRecord("TxnCommit", 0, 0), "commit_force")
WCommitForce(t)  == ForceResult(t, "commit_force", "commit_ret")
WCommitReturn(t) == ReturnLsn(t, "commit_ret")

WTruncate(t) ==
    /\ WalIdle(t)
    /\ wal' = truncate(wal, wal.flushed_lsn).w
    /\ UNCHANGED <<wpc, wreg, appended, append_failed>>

NextWal ==
    \E t \in WalThreads :
        \/ WAppend(t) /\ UNCHANGED <<poolVars, obsVars, ckVars, eng>>
        \/ WForce(t) /\ UNCHANGED <<poolVars, obsVars, ckVars, eng>>
        \/ WForceAllRead(t) /\ UNCHANGED <<poolVars, obsVars, ckVars, eng>>
        \/ WForceAllForce(t) /\ UNCHANGED <<poolVars, obsVars, ckVars, eng>>
        \/ WCommitAppend(t) /\ UNCHANGED <<poolVars, obsVars, ckVars, eng>>
        \/ WCommitForce(t) /\ UNCHANGED <<poolVars, obsVars, ckVars, eng>>
        \/ WCommitReturn(t) /\ UNCHANGED <<poolVars, obsVars, ckVars, eng>>
        \/ WTruncate(t) /\ UNCHANGED <<poolVars, obsVars, ckVars, eng>>

SpecWal == Init /\ [][NextWal]_vars

\* ---- SpecTruncate: threads appending data records while others run the WAL
\* ---- calls of a checkpoint: write_checkpoint_begin, later truncate(begin_lsn).
\* ---- The segment files found by the last truncate are recorded.
TrAppend(t) == WAppend(t) /\ UNCHANGED ret

TrBegin(t) ==
    \E failRot \in BOOLEAN, failWr \in BOOLEAN :
        LET r == append(wal, LogRecord("CheckpointBegin", 0, 0), failRot, failWr)
        IN /\ WalIdle(t) /\ LsnCapOk
           /\ wal' = r.w
           /\ NoteAppend(r)
           /\ wpc' = [wpc EXCEPT ![t] = IF r.code = "Ok" THEN "ckpt" ELSE "idle"]
           /\ wreg' = [wreg EXCEPT ![t] = IF r.code = "Ok" THEN r.lsn ELSE 0]
           /\ UNCHANGED ret

TrTruncate(t) ==
    LET r == truncate(wal, wreg[t])
    IN /\ wpc[t] = "ckpt"
       /\ wal' = r.w
       /\ ret' = [op |-> "truncate", arg |-> wreg[t], code |-> r.code,
                  before |-> wal.files]
       /\ wpc' = [wpc EXCEPT ![t] = "idle"]
       /\ wreg' = [wreg EXCEPT ![t] = 0]
       /\ UNCHANGED <<appended, append_failed>>

NextTruncate ==
    \E t \in WalThreads :
        \/ TrAppend(t) /\ UNCHANGED <<poolVars, last_written, pins, alloc, ckVars, eng>>
        \/ TrBegin(t) /\ UNCHANGED <<poolVars, last_written, pins, alloc, ckVars, eng>>
        \/ TrTruncate(t) /\ UNCHANGED <<poolVars, last_written, pins, alloc, ckVars, eng>>

SpecTruncate == Init /\ [][NextTruncate]_vars

\* ---- SpecRotate: one thread appending records of three sizes, one of which
\* ---- fills a segment exactly after a header-only record, and calling
\* ---- truncate; rotations and writes can fail. The serialized size, the
\* ---- segment and the offset found by the last append are recorded.
RotAppend ==
    \E len \in {0, FitLen, DataLen}, failRot \in BOOLEAN, failWr \in BOOLEAN :
        LET rec == LogRecord("Insert", 0, len)
            r   == append(wal, rec, failRot, failWr)
        IN /\ LsnCapOk
           /\ wal' = r.w
           /\ NoteAppend(r)
           /\ ret' = [op |-> "append", arg |-> serialized_size(rec), code |-> r.code,
                      id |-> wal.current_segment_id, pos |-> wal.current_segment_pos]
           /\ UNCHANGED <<wpc, wreg, poolVars, last_written, pins, alloc, ckVars, eng>>

RotTruncate ==
    /\ Cardinality(DOMAIN wal.files) > 2
    /\ wal' = truncate(wal, wal.flushed_lsn).w
    /\ UNCHANGED <<wpc, wreg, appended, append_failed, poolVars, obsVars, ckVars, eng>>

NextRotate == RotAppend \/ RotTruncate

SpecRotate == Init /\ [][NextRotate]_vars

\* ---- SpecReopen: one thread appending records and calling truncate on a
\* ---- WAL directory that is closed and opened again by a new WriteAheadLog;
\* ---- rotations and writes can fail. The LSN and the result of the last
\* ---- append are recorded.
ReAppend ==
    \E len \in {0, DataLen}, failRot \in BOOLEAN, failWr \in BOOLEAN :
        LET rec == LogRecord("Insert", 0, len)
            r   == append(wal, rec, failRot, failWr)
        IN /\ LsnCapOk /\ Len(appended) < MaxLsn
           /\ wal' = r.w
           /\ NoteAppend(r)
           /\ ret' = [op |-> "append", arg |-> r.lsn, code |-> r.code,
                      stored |-> wal.files]
           /\ UNCHANGED <<wpc, wreg, poolVars, last_written, pins, alloc, ckVars, eng>>

ReTruncate ==
    /\ Cardinality(DOMAIN wal.files) > 2
    /\ wal' = truncate(wal, wal.flushed_lsn).w
    /\ ret' = [op |-> "truncate", arg |-> wal.flushed_lsn, code |-> "Ok"]
    /\ UNCHANGED <<wpc, wreg, appended, append_failed, poolVars, last_written,
                   pins, alloc, ckVars, eng>>

\* close(), then open() of a new WriteAheadLog on the same directory
ReReopen ==
    /\ wal' = open(close(wal))
    /\ ret' = [op |-> "open", arg |-> 0, code |-> "Ok"]
    /\ append_failed' = FALSE
    /\ UNCHANGED <<wpc, wreg, appended, poolVars, last_written, pins, alloc,
                   ckVars, eng>>

NextReopen == ReAppend \/ ReTruncate \/ ReReopen

SpecReopen == Init /\ [][NextReopen]_vars

\* ---- SpecOversize: one thread appending records of two sizes, one of them
\* ---- larger than a segment; the serialized size and the result of the last
\* ---- append are recorded.
OvAppend ==
    \E len \in {DataLen, BigLen}, failRot \in BOOLEAN, failWr \in BOOLEAN :
        LET rec == LogRecord("Insert", 0, len)
            r   == append(wal, rec, failRot, failWr)
        IN /\ LsnCapOk
           /\ wal' = r.w
           /\ NoteAppend(r)
           /\ Returned("append", serialized_size(rec), r.code)
           /\ UNCHANGED <<wpc, wreg, poolVars, last_written, pins, alloc, ckVars, eng>>

SpecOversize == Init /\ [][OvAppend]_vars

\* ---- SpecCkpt: one CheckpointManager over the pool and the WAL; the client
\* ---- thread dirties pages, asks for checkpoints and calls check_pressure.
InCheckpoint(t) == ck[t].pc \notin {"none", "ret"}

\* Pages a pool call has written to the data file: dirty before, clean or
\* evicted after.
WrittenBy(s2) ==
    {p \in DirtyResident :
        p \notin DOMAIN s2.page_table \/ ~s2.frames[s2.page_table[p]].page.dirty}

SetFrame(t, c, written) ==
    ck' = [u \in CkThreads |->
              IF u = t THEN [c EXCEPT !.unwritten = @ \ written]
              ELSE [ck[u] EXCEPT !.unwritten = @ \ written]]

Step(t, c) == ck' = [ck EXCEPT ![t] = c]

Logged(c, e) == [c EXCEPT !.events = Append(@, e)]

Failed(c, code) == [c EXCEPT !.pc = "ret", !.status = code]

\* Phase 1: CheckpointBegin
DoBegin(t) ==
    \E fail \in BOOLEAN :
        LET r == append(wal, LogRecord("CheckpointBegin", 0, 0), FALSE, fail)
        IN /\ ck[t].pc = "begin"
           /\ wal' = r.w
           /\ IF r.code = "Ok"
              THEN /\ Step(t, Logged([ck[t] EXCEPT !.pc = "snapshot",
                                                   !.begin_lsn = r.lsn], "Begin"))
                   /\ cm' = cm
              ELSE /\ Step(t, Failed(ck[t], r.code))
                   /\ cm' = LeaveCheckpoint(cm)
           /\ UNCHANGED <<poolVars, obsVars, walHist, tpc, cpobs, eng>>

\* Phase 2: get_dirty_pages
DoSnapshot(t) ==
    \E dp \in Orders(DirtyResident) :
        /\ ck[t].pc = "snapshot"
        /\ Step(t, [ck[t] EXCEPT !.pc = IF dp = <<>> THEN "end0_append" ELSE "loop",
                                 !.dirty_pages = dp, !.unwritten = DirtyResident])
        /\ UNCHANGED <<poolVars, obsVars, walVars, cm, tpc, cpobs, eng>>

\* No dirty pages: write_checkpoint_end, result dropped
DoEnd0Append(t) ==
    \E fail \in BOOLEAN :
        LET r == append(wal, LogRecord("CheckpointEnd", ck[t].begin_lsn, 0), FALSE, fail)
        IN /\ ck[t].pc = "end0_append"
           /\ wal' = r.w
           /\ Step(t, IF r.code = "Ok"
                      THEN Logged([ck[t] EXCEPT !.pc = "end0_force", !.end_lsn = r.lsn],
                                  "EndAppend")
                      ELSE Logged([ck[t] EXCEPT !.pc = "finish0"], "EndAppendFail"))
           /\ UNCHANGED <<poolVars, obsVars, walHist, cm, tpc, cpobs, eng>>

DoEnd0Force(t) ==
    \E fail \in BOOLEAN :
        LET r == force(wal, ck[t].end_lsn, fail)
        IN /\ ck[t].pc = "end0_force"
           /\ wal' = r.w
           /\ Step(t, Logged([ck[t] EXCEPT !.pc = "finish0"],
                             IF r.code = "Ok" THEN "EndForce" ELSE "EndForceFail"))
           /\ UNCHANGED <<poolVars, obsVars, walHist, cm, tpc, cpobs, eng>>

DoFinish0(t) ==
    /\ ck[t].pc = "finish0"
    /\ cm' = LeaveCheckpoint(cm)
    /\ Step(t, [ck[t] EXCEPT !.pc = "ret", !.status = "Ok"])
    /\ UNCHANGED <<poolVars, obsVars, walVars, tpc, cpobs, eng>>

\* Phase 3: the head of the batch loop
DoLoop(t) ==
    /\ ck[t].pc = "loop"
    /\ Step(t, IF ck[t].i >= Len(ck[t].dirty_pages) \/ Interrupted(cm, ck[t].trigger)
               THEN [ck[t] EXCEPT !.pc = "sync"]
               ELSE [ck[t] EXCEPT !.pc = "flush", !.j = ck[t].i])
    /\ UNCHANGED <<poolVars, obsVars, walVars, cm, tpc, cpobs, eng>>

\* Phase 3: flush_pages(batch), one flush_page at a time
DoFlush(t) ==
    \E fail \in BOOLEAN :
        LET c == ck[t]
            batch_end == IF c.i + config_.batch_size < Len(c.dirty_pages)
                         THEN c.i + config_.batch_size ELSE Len(c.dirty_pages)
            r == flush_page(PoolState, c.dirty_pages[c.j + 1], fail)
            next == IF r.code # "Ok" \/ c.j + 1 = batch_end
                    THEN [c EXCEPT !.pc = "loop", !.i = @ + config_.batch_size, !.j = 0]
                    ELSE [c EXCEPT !.j = @ + 1]
        IN /\ c.pc = "flush"
           /\ fail => c.dirty_pages[c.j + 1] \in DirtyResident
           /\ SetPool(r.s)
           /\ SetFrame(t, Logged(next, IF r.code = "Ok" THEN "Flush" ELSE "FlushFail"),
                       WrittenBy(r.s))
           /\ UNCHANGED <<obsVars, walVars, cm, tpc, cpobs, eng>>

\* Phase 4: buffer_pool_->sync()
DoSync(t) ==
    \E fail \in BOOLEAN :
        /\ ck[t].pc = "sync"
        /\ IF SyncFailed(fail)
           THEN /\ Step(t, Logged(Failed(ck[t], "SyncError"), "SyncFail"))
                /\ cm' = LeaveCheckpoint(cm)
           ELSE /\ Step(t, Logged([ck[t] EXCEPT !.pc = "end_append"],
                                  IF fail THEN "SyncFail" ELSE "Sync"))
                /\ cm' = cm
        /\ UNCHANGED <<poolVars, obsVars, walVars, tpc, cpobs, eng>>

\* Phase 5: write_checkpoint_end(begin_lsn), its append
DoEndAppend(t) ==
    \E fail \in BOOLEAN :
        LET r == append(wal, LogRecord("CheckpointEnd", ck[t].begin_lsn, 0), FALSE, fail)
        IN /\ ck[t].pc = "end_append"
           /\ wal' = r.w
           /\ IF r.code = "Ok"
              THEN /\ Step(t, Logged([ck[t] EXCEPT !.pc = "end_force", !.end_lsn = r.lsn],
                                     "EndAppend"))
                   /\ cm' = cm
              ELSE /\ Step(t, Logged(Failed(ck[t], r.code), "EndAppendFail"))
                   /\ cm' = LeaveCheckpoint(cm)
           /\ UNCHANGED <<poolVars, obsVars, walHist, tpc, cpobs, eng>>

\* Phase 5: write_checkpoint_end(begin_lsn), its force
DoEndForce(t) ==
    \E fail \in BOOLEAN :
        LET r == force(wal, ck[t].end_lsn, fail)
        IN /\ ck[t].pc = "end_force"
           /\ wal' = r.w
           /\ IF r.code = "Ok"
              THEN /\ Step(t, Logged([ck[t] EXCEPT !.pc = "truncate"], "EndForce"))
                   /\ cm' = cm
              ELSE /\ Step(t, Logged(Failed(ck[t], r.code), "EndForceFail"))
                   /\ cm' = LeaveCheckpoint(cm)
           /\ UNCHANGED <<poolVars, obsVars, walHist, tpc, cpobs, eng>>

\* Phase 6: wal_->truncate(begin_lsn)
DoTruncate(t) ==
    /\ ck[t].pc = "truncate"
    /\ wal' = truncate(wal, ck[t].begin_lsn).w
    /\ Step(t, Logged([ck[t] EXCEPT !.pc = "finish"], "Truncate"))
    /\ UNCHANGED <<poolVars, obsVars, walHist, cm, tpc, cpobs, eng>>

\* CheckpointMetrics::record: checkpoint_count.fetch_add(1); the frame counts
\* the increments its call has made.
record(c) == [c EXCEPT !.recorded = @ + 1]

\* Finish
DoFinish(t) ==
    /\ ck[t].pc = "finish"
    /\ cm' = LeaveCheckpoint(cm)
    /\ Step(t, record([ck[t] EXCEPT !.pc = "ret", !.status = "Ok"]))
    /\ UNCHANGED <<poolVars, obsVars, walVars, tpc, cpobs, eng>>

\* A thread calls do_checkpoint(trigger); `take` : it locks checkpoint_mutex_.
StartCheckpoint(t, trigger, take, at) ==
    /\ take => cm.checkpoint_mutex = "free"
    /\ cm' = [EnterCheckpoint(cm, trigger) EXCEPT
                 !.checkpoint_mutex = IF take THEN t ELSE @]
    /\ ck' = [ck EXCEPT ![t] = [NoCheckpoint EXCEPT !.pc = "begin", !.trigger = trigger]]
    /\ tpc' = [tpc EXCEPT ![t] = at]

\* The same while the log is below the model's cap.
CallCheckpoint(t, trigger, take, at) ==
    /\ wal.next_lsn <= MaxCkptLsn
    /\ StartCheckpoint(t, trigger, take, at)

\* do_checkpoint has returned to t; the lock_guard, if any, is released.
CheckpointReturned(t, at, next) ==
    /\ tpc[t] = at
    /\ ck[t].pc = "ret"
    /\ cm' = [cm EXCEPT !.checkpoint_mutex = IF @ = t THEN "free" ELSE @]
    /\ tpc' = [tpc EXCEPT ![t] = next]

\* CheckpointManager::start
MainStart ==
    /\ tpc["main"] = "idle"
    /\ ~cm.running
    /\ tpc["bg"] = "off"
    /\ cm' = [cm EXCEPT !.running = TRUE]
    /\ tpc' = [tpc EXCEPT !["bg"] = "top", !["main"] = "started"]
    /\ UNCHANGED <<poolVars, obsVars, walVars, ck, cpobs, eng>>

\* CheckpointManager::stop: running_.exchange(false)
MainStopExchange ==
    /\ tpc["main"] \in {"idle", "started"}
    /\ cm' = [cm EXCEPT !.running = FALSE]
    /\ tpc' = [tpc EXCEPT !["main"] = IF cm.running THEN "stop_unblock" ELSE @]
    /\ UNCHANGED <<poolVars, obsVars, walVars, ck, cpobs, eng>>

\* CheckpointManager::stop: under block_mutex_, blocking_ = false, notify_all
MainStopUnblock ==
    /\ tpc["main"] = "stop_unblock"
    /\ tpc["caller"] # "cp_presleep"
    /\ cm' = [cm EXCEPT !.blocking = FALSE, !.block_cv = {}]
    /\ tpc' = [tpc EXCEPT !["main"] = "stop_join"]
    /\ UNCHANGED <<poolVars, obsVars, walVars, ck, cpobs, eng>>

\* CheckpointManager::stop: join, then do_checkpoint(Shutdown)
MainStopCheckpoint ==
    /\ tpc["main"] = "stop_join"
    /\ tpc["bg"] = "off"
    /\ CallCheckpoint("main", "Shutdown", FALSE, "stop_ckpt")
    /\ UNCHANGED <<poolVars, obsVars, walVars, cpobs, eng>>

MainStopReturn ==
    /\ CheckpointReturned("main", "stop_ckpt", "stopped")
    /\ ck' = [ck EXCEPT !["main"] = NoCheckpoint]
    /\ UNCHANGED <<poolVars, obsVars, walVars, cpobs, eng>>

\* background_loop: the loop test and the wait_for (a timeout always ends it)
BgTop ==
    /\ tpc["bg"] = "top"
    /\ tpc' = [tpc EXCEPT !["bg"] = IF LoopEnds(cm) THEN "off" ELSE "woke"]
    /\ UNCHANGED <<poolVars, obsVars, walVars, cm, ck, cpobs, eng>>

\* background_loop: after the wait
BgWoke ==
    \E since_last \in {0, config_.min_interval, config_.max_interval} :
        LET trigger == should_checkpoint(since_last, dirty_count, PoolSize, wal.total_size)
        IN /\ tpc["bg"] = "woke"
           /\ IF LoopEnds(cm) THEN tpc' = [tpc EXCEPT !["bg"] = "off"] /\ cm' = cm /\ ck' = ck
              ELSE IF Requested(cm)
              THEN /\ cm' = [cm EXCEPT !.checkpoint_requested = FALSE]
                   /\ tpc' = [tpc EXCEPT !["bg"] = "lock"]
                   /\ ck' = [ck EXCEPT !["bg"].trigger = "Manual"]
              ELSE IF trigger # "nullopt"
              THEN /\ cm' = cm
                   /\ tpc' = [tpc EXCEPT !["bg"] = "lock"]
                   /\ ck' = [ck EXCEPT !["bg"].trigger = trigger]
              ELSE tpc' = [tpc EXCEPT !["bg"] = "top"] /\ cm' = cm /\ ck' = ck
           /\ UNCHANGED <<poolVars, obsVars, walVars, cpobs, eng>>

\* background_loop: lock_guard(checkpoint_mutex_); do_checkpoint(trigger)
BgCheckpoint ==
    /\ tpc["bg"] = "lock"
    /\ CallCheckpoint("bg", ck["bg"].trigger, TRUE, "ckpt")
    /\ UNCHANGED <<poolVars, obsVars, walVars, cpobs, eng>>

BgReturn ==
    /\ CheckpointReturned("bg", "ckpt", "top")
    /\ ck' = [ck EXCEPT !["bg"] = NoCheckpoint]
    /\ UNCHANGED <<poolVars, obsVars, walVars, cpobs, eng>>

\* CheckpointManager::request_checkpoint
CallerRequest ==
    /\ tpc["caller"] = "idle"
    /\ ~cm.checkpoint_requested
    /\ cm' = [cm EXCEPT !.checkpoint_requested = TRUE]
    /\ UNCHANGED <<poolVars, obsVars, walVars, ck, tpc, cpobs, eng>>

\* CheckpointManager::checkpoint_sync
CallerSync ==
    /\ tpc["caller"] = "idle"
    /\ CallCheckpoint("caller", "Manual", TRUE, "sync")
    /\ UNCHANGED <<poolVars, obsVars, walVars, cpobs, eng>>

\* checkpoint_sync hands do_checkpoint's status to its caller
CallerSyncReturn ==
    /\ CheckpointReturned("caller", "sync", "sync_ret")
    /\ UNCHANGED <<poolVars, obsVars, walVars, ck, cpobs, eng>>

CallerSyncDone ==
    /\ tpc["caller"] = "sync_ret"
    /\ tpc' = [tpc EXCEPT !["caller"] = "idle"]
    /\ ck' = [ck EXCEPT !["caller"] = NoCheckpoint]
    /\ UNCHANGED <<poolVars, obsVars, walVars, cm, cpobs, eng>>

\* check_pressure: the load of blocking_
CpEntry ==
    /\ tpc["caller"] = "idle"
    /\ cpobs' = [entry |-> cm.blocking, waited |-> cm.blocking, saw |-> FALSE,
                 result |-> FALSE]
    /\ tpc' = [tpc EXCEPT !["caller"] = IF cm.blocking THEN "cp_wait" ELSE "cp_ret"]
    /\ UNCHANGED <<poolVars, obsVars, walVars, cm, ck, eng>>

\* check_pressure: under block_mutex_ the wait evaluates its predicate; when
\* it is false the thread still holds block_mutex_ and is about to sleep.
CpWake ==
    /\ tpc["caller"] = "cp_wait"
    /\ IF PressureOver(cm)
       THEN /\ cpobs' = [cpobs EXCEPT !.saw = ~cm.blocking \/ ~cm.running,
                                      !.result = TRUE]
            /\ tpc' = [tpc EXCEPT !["caller"] = "cp_ret"]
       ELSE /\ cpobs' = cpobs
            /\ tpc' = [tpc EXCEPT !["caller"] = "cp_presleep"]
    /\ UNCHANGED <<poolVars, obsVars, walVars, cm, ck, eng>>

\* check_pressure: the wait releases block_mutex_ and sleeps on block_cv_
CpSleep ==
    /\ tpc["caller"] = "cp_presleep"
    /\ cm' = [cm EXCEPT !.block_cv = @ \cup {"caller"}]
    /\ tpc' = [tpc EXCEPT !["caller"] = "cp_asleep"]
    /\ UNCHANGED <<poolVars, obsVars, walVars, ck, cpobs, eng>>

\* check_pressure: a notify_all has taken the thread off block_cv_
CpNotified ==
    /\ tpc["caller"] = "cp_asleep"
    /\ "caller" \notin cm.block_cv
    /\ tpc' = [tpc EXCEPT !["caller"] = "cp_wait"]
    /\ UNCHANGED <<poolVars, obsVars, walVars, cm, ck, cpobs, eng>>

\* check_pressure: the wait wakes without a notify (a spurious wakeup)
CpSpurious ==
    /\ tpc["caller"] = "cp_asleep"
    /\ "caller" \in cm.block_cv
    /\ cm' = [cm EXCEPT !.block_cv = @ \ {"caller"}]
    /\ tpc' = [tpc EXCEPT !["caller"] = "cp_wait"]
    /\ UNCHANGED <<poolVars, obsVars, walVars, ck, cpobs, eng>>

CpReturn ==
    /\ tpc["caller"] = "cp_ret"
    /\ tpc' = [tpc EXCEPT !["caller"] = "idle"]
    /\ cpobs' = NoPressureCall
    /\ UNCHANGED <<poolVars, obsVars, walVars, cm, ck, eng>>

\* The client makes a dirty page: new_page ...
CallerNewPage ==
    LET r == new_page(PoolState, FALSE, {})
    IN /\ tpc["caller"] = "idle"
       /\ AllocCapOk
       /\ SetPool(r.s)
       /\ SetFrame("caller", ck["caller"], WrittenBy(r.s))
       /\ tpc' = [tpc EXCEPT !["caller"] = IF r.code = "Ok" THEN "unpin" ELSE @]
       /\ UNCHANGED <<obsVars, walVars, cm, cpobs, eng>>

\* ... then unpin_page(id, true)
CallerUnpin ==
    \E p \in DOMAIN page_table :
        LET r == unpin_page(PoolState, p, TRUE)
        IN /\ tpc["caller"] = "unpin"
           /\ r.code = "Ok"
           /\ SetPool(r.s)
           /\ tpc' = [tpc EXCEPT !["caller"] = "idle"]
           /\ UNCHANGED <<obsVars, walVars, cm, ck, cpobs, eng>>

DoCheckpointStep(t) ==
    \/ DoBegin(t) \/ DoSnapshot(t) \/ DoEnd0Append(t) \/ DoEnd0Force(t)
    \/ DoFinish0(t) \/ DoLoop(t) \/ DoFlush(t) \/ DoSync(t) \/ DoEndAppend(t)
    \/ DoEndForce(t) \/ DoTruncate(t) \/ DoFinish(t)

NextCkpt ==
    \/ \E t \in CkThreads : DoCheckpointStep(t)
    \/ MainStart \/ MainStopExchange \/ MainStopUnblock \/ MainStopCheckpoint
    \/ MainStopReturn
    \/ BgTop \/ BgWoke \/ BgCheckpoint \/ BgReturn
    \/ CallerRequest \/ CallerSync \/ CallerSyncReturn \/ CallerSyncDone
    \/ CpEntry \/ CpWake \/ CpSleep \/ CpNotified \/ CpSpurious \/ CpReturn
    \/ CallerNewPage \/ CallerUnpin

SpecCkpt == Init /\ [][NextCkpt]_vars

\* ---- SpecRequest: a started manager that is never stopped; the client
\* ---- dirties pages and calls request_checkpoint(). The background thread
\* ---- eventually takes every step it can take.
\* request_checkpoint, while the log has room for the checkpoint under way and
\* the one that serves the request.
ReqRequest ==
    /\ wal.next_lsn + 2 <= MaxReqLsn
    /\ CallerRequest

ReqBgCheckpoint ==
    /\ tpc["bg"] = "lock"
    /\ wal.next_lsn <= MaxReqLsn
    /\ StartCheckpoint("bg", ck["bg"].trigger, TRUE, "ckpt")
    /\ UNCHANGED <<poolVars, obsVars, walVars, cpobs, eng>>

ReqBgStep ==
    BgTop \/ BgWoke \/ ReqBgCheckpoint \/ BgReturn \/ DoCheckpointStep("bg")

NextRequest ==
    \/ MainStart
    \/ CallerNewPage \/ CallerUnpin
    \/ ReqRequest
    \/ ReqBgStep

SpecRequest == Init /\ [][NextRequest]_vars /\ WF_vars(ReqBgStep)

\* ---- SpecStop: SpecCkpt with a client that dirties no page once stop() has
\* ---- been called.
StopNotCalled == tpc["main"] \in {"idle", "started"}

QuietNewPage == StopNotCalled /\ CallerNewPage

QuietUnpin == StopNotCalled /\ CallerUnpin

NextStop ==
    \/ \E t \in CkThreads : DoCheckpointStep(t)
    \/ MainStart \/ MainStopExchange \/ MainStopUnblock \/ MainStopCheckpoint
    \/ MainStopReturn
    \/ BgTop \/ BgWoke \/ BgCheckpoint \/ BgReturn
    \/ CallerRequest \/ CallerSync \/ CallerSyncReturn \/ CallerSyncDone
    \/ CpEntry \/ CpWake \/ CpSleep \/ CpNotified \/ CpSpurious \/ CpReturn
    \/ QuietNewPage \/ QuietUnpin

SpecStop == Init /\ [][NextStop]_vars

\* ---- SpecBlock: a running manager whose background thread checkpoints while
\* ---- the client dirties pages and calls check_pressure; nobody calls stop(),
\* ---- checkpoint_sync() or request_checkpoint(). Every thread that can take
\* ---- a step eventually takes one.
BgStep ==
    BgTop \/ BgWoke \/ BgCheckpoint \/ BgReturn \/ DoCheckpointStep("bg")

CpStep == CpEntry \/ CpWake \/ CpSleep \/ CpNotified \/ CpReturn

NextBlock ==
    \/ MainStart
    \/ CallerNewPage \/ CallerUnpin
    \/ BgStep
    \/ CpStep \/ CpSpurious

SpecBlock == Init /\ [][NextBlock]_vars /\ WF_vars(BgStep) /\ WF_vars(CpStep)

\* ---- SpecHalt: the owner thread calls start() and stop(), each possibly
\* ---- again; the background thread checkpoints on request and on its
\* ---- triggers; the client dirties pages, calls request_checkpoint() and
\* ---- check_pressure(). Every thread that can take a step eventually takes
\* ---- one. What the last start() / stop() found in running_ is recorded.
\* CheckpointManager::start
HaltStart ==
    /\ tpc["main"] \in {"idle", "started"}
    /\ cm' = [cm EXCEPT !.running = TRUE]
    /\ tpc' = IF cm.running THEN tpc
              ELSE [tpc EXCEPT !["bg"] = "top", !["main"] = "started"]
    /\ ret' = [op |-> "start", arg |-> cm.running, code |-> "Ok"]
    /\ UNCHANGED <<poolVars, last_written, pins, alloc, walVars, ck, cpobs, eng>>

\* CheckpointManager::stop: running_.exchange(false)
HaltStopExchange ==
    /\ tpc["main"] \in {"idle", "started", "stopped"}
    /\ cm' = [cm EXCEPT !.running = FALSE]
    /\ tpc' = [tpc EXCEPT !["main"] = IF cm.running THEN "stop_unblock" ELSE @]
    /\ ret' = [op |-> "stop", arg |-> cm.running, code |-> "Ok"]
    /\ UNCHANGED <<poolVars, last_written, pins, alloc, walVars, ck, cpobs, eng>>

\* CheckpointManager::stop: join, then do_checkpoint(Shutdown)
HaltStopCheckpoint ==
    /\ tpc["main"] = "stop_join"
    /\ tpc["bg"] = "off"
    /\ StartCheckpoint("main", "Shutdown", FALSE, "stop_ckpt")
    /\ UNCHANGED <<poolVars, obsVars, walVars, cpobs, eng>>

\* background_loop after the wait; it starts no checkpoint once the log has
\* reached the model's cap.
HaltBgWoke ==
    /\ BgWoke
    /\ tpc'["bg"] = "lock" => wal.next_lsn <= MaxCkptLsn

HaltBgCheckpoint ==
    /\ tpc["bg"] = "lock"
    /\ StartCheckpoint("bg", ck["bg"].trigger, TRUE, "ckpt")
    /\ UNCHANGED <<poolVars, obsVars, walVars, cpobs, eng>>

HaltMainStep ==
    \/ HaltStopExchange \/ MainStopUnblock \/ HaltStopCheckpoint \/ MainStopReturn
    \/ DoCheckpointStep("main")

HaltBgStep ==
    BgTop \/ HaltBgWoke \/ HaltBgCheckpoint \/ BgReturn \/ DoCheckpointStep("bg")

NextHalt ==
    \/ HaltStart
    \/ HaltMainStep
    \/ HaltBgStep
    \/ CallerNewPage \/ CallerUnpin \/ CallerRequest
    \/ CpStep \/ CpSpurious

SpecHalt ==
    Init /\ [][NextHalt]_vars
         /\ WF_vars(MainStopUnblock \/ HaltStopCheckpoint \/ MainStopReturn
                        \/ DoCheckpointStep("main"))
         /\ WF_vars(HaltBgStep)
         /\ WF_vars(CpWake \/ CpSleep \/ CpNotified \/ CpReturn)

\* ---- SpecEngine: one client thread on a StorageEngine: a session, its
\* ---- shutdown, and a second session on the same directory; no I/O failure.
NonePinned == \A f \in FrameIds : frames[f].page.pin_count = 0

EngCreatePage ==
    LET r == new_page(PoolState, FALSE, {})
    IN /\ eng.phase = "up" /\ AllocCapOk
       /\ SetPool(r.s)
       /\ UNCHANGED <<obsVars, envVars, eng>>

EngGetPage ==
    \E p \in PageIds :
        LET r == fetch_page(PoolState, p, FALSE, {})
        IN /\ eng.phase = "up" /\ PinCapOk(r)
           /\ SetPool(r.s)
           /\ UNCHANGED <<obsVars, envVars, eng>>

\* The client writes the payload through the Page* it holds.
EngWrite ==
    \E p \in PageIds, v \in Payloads :
        /\ eng.phase = "up"
        /\ WritePayloadStep(p, v)
        /\ eng' = [eng EXCEPT !.touched = @ \cup {p}]
        /\ UNCHANGED <<obsVars, envVars>>

\* release_page(id, modified); a client that wrote the page says so.
EngRelease ==
    \E p \in DOMAIN page_table, modified \in BOOLEAN :
        LET r == unpin_page(PoolState, p, modified)
            payload == frames[page_table[p]].page.payload
        IN /\ eng.phase = "up"
           /\ r.code = "Ok"
           /\ p \in eng.touched => modified
           /\ SetPool(r.s)
           /\ eng' = [eng EXCEPT !.touched = @ \ {p},
                                 !.released[p] = IF modified \/ @ # NoPage
                                                 THEN payload ELSE @]
           /\ UNCHANGED <<obsVars, envVars>>

\* StorageEngine::checkpoint_sync on the running manager
EngCheckpointSync ==
    \E dp \in Orders(DirtyResident) :
        LET r == do_checkpoint(PoolState, wal, dp, [cm EXCEPT !.running = TRUE], "Manual")
        IN /\ eng.phase = "up"
           /\ wal.next_lsn <= MaxCkptLsn
           /\ SetPool(r.s)
           /\ wal' = r.w
           /\ UNCHANGED <<obsVars, walHist, ckVars, eng>>

\* StorageEngine::shutdown: stop() with its Shutdown checkpoint, ~BufferPool,
\* WAL close, DiskManager close. The client holds no page.
EngShutdown ==
    \E dp \in Orders(DirtyResident) :
        LET r == do_checkpoint(PoolState, wal, dp, cm, "Shutdown")
        IN /\ eng.phase = "up"
           /\ NonePinned
           /\ SetPool(flush_all(r.s, dp))
           /\ wal' = close(r.w)
           /\ eng' = [eng EXCEPT !.phase = "down", !.page_count = next_page_id]
           /\ UNCHANGED <<obsVars, walHist, ckVars>>

\* StorageEngine::initialize on the directory of the first session
EngInitialize ==
    /\ eng.phase = "down"
    /\ next_page_id' = Len(data_file)
    /\ frames' = [f \in FrameIds |-> [page |-> EmptyPage, referenced |-> FALSE]]
    /\ page_table' = <<>>
    /\ free_list' = [i \in 1 .. PoolSize |-> i - 1]
    /\ clock_hand' = 0
    /\ dirty_count' = 0
    /\ wal' = open(wal)
    /\ eng' = [eng EXCEPT !.phase = "up2"]
    /\ UNCHANGED <<data_file, obsVars, walHist, ckVars>>

\* Second session: get_page ...
EngGetPageAgain ==
    \E p \in PageIds :
        LET r == fetch_page(PoolState, p, FALSE, {})
        IN /\ eng.phase = "up2"
           /\ NonePinned
           /\ SetPool(r.s)
           /\ Returned("get_page", p, r.code)
           /\ UNCHANGED <<last_written, pins, alloc, envVars, eng>>

\* ... and release_page(id, false)
EngReleaseAgain ==
    \E p \in DOMAIN page_table :
        LET r == unpin_page(PoolState, p, FALSE)
        IN /\ eng.phase = "up2"
           /\ r.code = "Ok"
           /\ SetPool(r.s)
           /\ Returned("release_page", p, r.code)
           /\ UNCHANGED <<last_written, pins, alloc, envVars, eng>>

NextEngine ==
    \/ EngCreatePage \/ EngGetPage \/ EngWrite \/ EngRelease \/ EngCheckpointSync
    \/ EngShutdown \/ EngInitialize \/ EngGetPageAgain \/ EngReleaseAgain

SpecEngine == Init /\ [][NextEngine]_vars

\* ================================================================ claims

\* C1: a resident page with pin_count > 0 is never removed from its frame:
\* across every step (fetch_page and new_page with their Clock-Sweep,
\* unpin_page, flush_page, delete_page, payload writes) a page that is in the
\* page table and pinned before the step is still mapped to the same frame
\* after it, and that frame still holds the page.
C1_PinnedNeverEvicted ==
    [][\A p \in DOMAIN page_table :
          frames[page_table[p]].page.pin_count > 0 =>
              /\ p \in DOMAIN page_table'
              /\ page_table'[p] = page_table[p]
              /\ frames'[page_table[p]].page.id = p]_vars

\* C1 witness: page 0 is still pinned in its frame while page 1 has left the
\* pool and the page allocated after it occupies the other frame.
C1_Witness ==
    /\ 0 \in DOMAIN page_table
    /\ frames[page_table[0]].page.pin_count > 0
    /\ 1 \notin DOMAIN page_table
    /\ 2 \in DOMAIN page_table
    /\ free_list = <<>>

\* The page a successful fetch_page(ret.arg) handed out.
FetchedPage == frames[page_table[ret.arg]].page

\* C2 as stated: every fetch_page of a page created by new_page succeeds and
\* returns the payload last written to it.
C2_EveryFetchSucceeds ==
    (ret.op = "fetch_page" /\ last_written[ret.arg] # NoPage) =>
        /\ ret.code = "Ok"
        /\ ret.arg \in DOMAIN page_table
        /\ FetchedPage.id = ret.arg
        /\ FetchedPage.payload = last_written[ret.arg]

\* C2 amended: a fetch_page of a page created by new_page either succeeds and
\* returns the payload last written to it (resident or reloaded after an
\* eviction), or fails with NoAvailableFrames, and that only when every frame
\* holds a pinned page.
C2_FetchReturnsLastWritten ==
    (ret.op = "fetch_page" /\ last_written[ret.arg] # NoPage) =>
        \/ /\ ret.code = "Ok"
           /\ ret.arg \in DOMAIN page_table
           /\ FetchedPage.id = ret.arg
           /\ FetchedPage.pin_count >= 1
           /\ FetchedPage.payload = last_written[ret.arg]
        \/ /\ ret.code = "NoAvailableFrames"
           /\ ret.arg \notin DOMAIN page_table
           /\ \A f \in FrameIds : frames[f].page.pin_count > 0

\* C2 witness: a fetch just reloaded from the data file a page whose payload
\* MaxVal had been written back by an eviction (it is clean and pinned once).
C2_Witness ==
    /\ ret.op = "fetch_page" /\ ret.code = "Ok"
    /\ ret.arg \in DOMAIN page_table
    /\ ~FetchedPage.dirty
    /\ FetchedPage.pin_count = 1
    /\ FetchedPage.payload = MaxVal
    /\ last_written[ret.arg] = MaxVal
    /\ next_page_id > PoolSize

\* The records of the segment files in the order they were written: the
\* segments by ascending id, each from its first byte.
RECURSIVE FileOrder(_, _)
FileOrder(w, ids) ==
    IF ids = {} THEN <<>>
    ELSE LET i == CHOOSE x \in ids : \A y \in ids : x <= y
         IN w.files[i] \o FileOrder(w, ids \ {i})

StrictlyIncreasing(seq) ==
    \A i, j \in 1 .. Len(seq) : i < j => seq[i] < seq[j]

\* C7: at the moment write_txn_commit returns success with LSN c,
\* flushed_lsn() >= c, whatever other threads do on the same WAL.
C7_CommitFlushedAtReturn ==
    \A t \in WalThreads : wpc[t] = "commit_ret" => wal.flushed_lsn >= wreg[t]

\* C8: the LSNs returned by successful appends are pairwise distinct and
\* strictly increasing in the order the records lie in the segment files;
\* with no failing append they are 1, 2, 3, ... from the fresh log's
\* current_lsn() = 1, and current_lsn() is the last returned LSN + 1.
C8_LsnMonotonic ==
    /\ StrictlyIncreasing(appended)
    /\ LET recs == FileOrder(wal, DOMAIN wal.files)
       IN StrictlyIncreasing([k \in 1 .. Len(recs) |-> recs[k].lsn])
    /\ ~append_failed =>
          /\ \A k \in 1 .. Len(appended) : appended[k] = k
          /\ wal.next_lsn = Len(appended) + 1

\* C8 witness: both threads have appended, the log has rotated, no append has
\* failed and MaxLsn records were returned.
C8_Witness ==
    /\ ~append_failed
    /\ Len(appended) = MaxLsn
    /\ wal.current_segment_id >= 2
    /\ \E t \in WalThreads : wpc[t] = "commit_ret" /\ wreg[t] = MaxLsn

Range(seq) == {seq[k] : k \in 1 .. Len(seq)}

\* Position of a checkpoint event in the order Begin, flush, sync, End
\* append, End force, truncate.
Rank(e) ==
    CASE e = "Begin" -> 1
      [] e \in {"Flush", "FlushFail"} -> 2
      [] e \in {"Sync", "SyncFail"} -> 3
      [] e \in {"EndAppend", "EndAppendFail"} -> 4
      [] e \in {"EndForce", "EndForceFail"} -> 5
      [] e = "Truncate" -> 6

OrderedEvents(c) ==
    LET ev == c.events
    IN /\ ev # <<>> => ev[1] = "Begin"
       /\ \A a, b \in 1 .. Len(ev) :
             a < b => /\ Rank(ev[a]) <= Rank(ev[b])
                      /\ Rank(ev[a]) = Rank(ev[b]) => Rank(ev[a]) = 2
                      /\ ev[a] = "SyncFail" => Rank(ev[b]) < 4
       /\ (c.dirty_pages # <<>> /\ "EndAppend" \in Range(ev)) => "Sync" \in Range(ev)
       /\ "Truncate" \in Range(ev) =>
             "EndAppend" \in Range(ev) /\ "EndForce" \in Range(ev)

\* C3: after shutdown() the data file holds, for every page released with
\* modified = true, the payload the page had at its last release; a second
\* engine on the same directory has the same page_count(), dirty_page_count()
\* 0, and get_page(id) returns that payload.
C3_ShutdownPersists ==
    /\ eng.phase \in {"down", "up2"} =>
          \A p \in PageIds :
              eng.released[p] # NoPage =>
                  /\ p < Len(data_file)
                  /\ data_file[p + 1].payload = eng.released[p]
    /\ eng.phase = "up2" =>
          /\ next_page_id = eng.page_count
          /\ dirty_count = 0
          /\ (ret.op = "get_page" /\ eng.released[ret.arg] # NoPage) =>
                /\ ret.code = "Ok"
                /\ FetchedPage.payload = eng.released[ret.arg]

\* C3 witness: the second session has read back a non-zero payload of a page
\* that was still dirty in the pool when shutdown began, all pages allocated.
C3_Witness ==
    /\ eng.phase = "up2"
    /\ ret.op = "get_page" /\ ret.code = "Ok"
    /\ eng.released[ret.arg] = MaxVal
    /\ FetchedPage.payload = MaxVal
    /\ next_page_id = MaxPages
    /\ wal.flushed_lsn = 0 /\ Len(wal.files[wal.current_segment_id]) = 2

\* C4: within one execution of do_checkpoint the events come in the order
\* CheckpointBegin appended, pages flushed, data file sync, CheckpointEnd
\* appended, CheckpointEnd forced, WAL truncate; no CheckpointEnd follows a
\* failed sync, and truncate is called only after the CheckpointEnd of the same
\* checkpoint was appended and forced successfully.
C4_CheckpointEventOrder == \A t \in CkThreads : OrderedEvents(ck[t])

\* C4 witness: a blocking background checkpoint has gone through all six events.
C4_Witness ==
    /\ ck["bg"].pc = "ret"
    /\ ck["bg"].trigger = "DirtyHard"
    /\ ck["bg"].events = <<"Begin", "Flush", "Flush", "Sync", "EndAppend", "EndForce", "Truncate">>

\* C5: once the CheckpointEnd of a checkpoint is appended, every page of that
\* checkpoint's dirty-page snapshot has been written to the data file since
\* the snapshot was taken.
C5_EndAfterSnapshotWritten ==
    \A t \in CkThreads : "EndAppend" \in Range(ck[t].events) => ck[t].unwritten = {}

\* C6: when checkpoint_sync() returns success (only the calling thread dirties
\* pages), dirty_count() is 0.
C6_SyncLeavesNoDirty ==
    (tpc["caller"] = "sync_ret" /\ ck["caller"].status = "Ok") => dirty_count = 0

\* C9: at most one thread is inside do_checkpoint.
C9_OneCheckpointAtATime == Cardinality({t \in CkThreads : InCheckpoint(t)}) <= 1

\* C10: check_pressure returns false without waiting when blocking_ was false
\* at entry; when it was true, the call returns true and only after it saw
\* blocking_ false or running_ false.
C10_CheckPressure ==
    tpc["caller"] = "cp_ret" =>
        /\ ~cpobs.entry => (~cpobs.result /\ ~cpobs.waited)
        /\ cpobs.entry => (cpobs.result /\ cpobs.saw)

\* C10 witness: a call that found blocking_ set has returned true while the
\* manager is still running.
C10_Witness ==
    /\ tpc["caller"] = "cp_ret"
    /\ cpobs.entry /\ cpobs.result /\ cpobs.saw
    /\ cm.running /\ ~cm.blocking

InPressureWait == tpc["caller"] \in {"cp_wait", "cp_presleep", "cp_asleep"}

\* C11: a writer waiting inside check_pressure returns once the blocking
\* checkpoint has cleared blocking_, under fair scheduling, with no stop() and
\* no later checkpoint needed.
C11_WaiterReturns == (InPressureWait /\ ~cm.blocking) ~> (tpc["caller"] = "cp_ret")

\* C11: the notify of a finished checkpoint is never missed: no writer sleeps
\* on block_cv_, with no notify pending for it, while blocking_ is clear and no
\* checkpoint is in progress on the running manager.
C11_NoMissedNotify ==
    ~ /\ tpc["caller"] = "cp_asleep"
      /\ "caller" \in cm.block_cv
      /\ ~cm.blocking /\ ~cm.checkpoint_in_progress /\ cm.running

\* The final checkpoint of stop() has returned without an I/O failure.
ShutdownCheckpointDone ==
    /\ tpc["main"] = "stop_ckpt"
    /\ ck["main"].pc = "ret"
    /\ ck["main"].status = "Ok"
    /\ Range(ck["main"].events) \cap
          {"FlushFail", "SyncFail", "EndAppendFail", "EndForceFail"} = {}

\* C12: stop() on a running manager runs, after the join, a Shutdown
\* checkpoint that flushes every page of its snapshot although running_ is
\* false; when it returns (no writer since stop() was called, no I/O failure)
\* dirty_count() is 0.
C12_StopFlushesAll ==
    /\ InCheckpoint("main") =>
          /\ ck["main"].trigger = "Shutdown"
          /\ tpc["bg"] = "off" /\ ~cm.running
    /\ ShutdownCheckpointDone =>
          /\ dirty_count = 0
          /\ Cardinality({k \in 1 .. Len(ck["main"].events) :
                             ck["main"].events[k] = "Flush"})
                 = Len(ck["main"].dirty_pages)

\* C12 witness: the Shutdown checkpoint has flushed a snapshot of two pages.
C12_Witness ==
    /\ ShutdownCheckpointDone
    /\ Len(ck["main"].dirty_pages) = 2
    /\ ck["main"].events =
          <<"Begin", "Flush", "Flush", "Sync", "EndAppend", "EndForce", "Truncate">>
    /\ dirty_count = 0

\* Every frame of the pool holds a pinned page.
AllFramesPinned ==
    \A f \in FrameIds :
        frames[f].page.id # INVALID_PAGE_ID /\ frames[f].page.pin_count > 0

\* Some resident page has pin count 0.
SomeUnpinnedResident ==
    \E p \in DOMAIN page_table : frames[page_table[p]].page.pin_count = 0

\* C13: with every frame pinned, new_page and fetch_page of a non-resident id
\* return NoAvailableFrames; once some resident page has pin count 0, new_page
\* without an I/O failure succeeds, whatever the reference bits and the clock
\* hand are.
C13_PinnedPoolRefusesThenRecovers ==
    /\ AllFramesPinned =>
          /\ new_page(PoolState, FALSE, {}).code = "NoAvailableFrames"
          /\ \A p \in (0 .. MaxPages) \ DOMAIN page_table :
                 fetch_page(PoolState, p, FALSE, {}).code = "NoAvailableFrames"
    /\ SomeUnpinnedResident => new_page(PoolState, FALSE, {}).code = "Ok"
    /\ (ret.op = "unpin_page" /\ ret.code = "Ok"
           /\ frames[page_table[ret.arg]].page.pin_count = 0)
          => new_page(PoolState, FALSE, {}).code = "Ok"

\* C13 witness: new_page has just taken the frame of an unpinned, referenced
\* page while the other frame stayed pinned.
C13_Witness ==
    /\ ret = [op |-> "new_page", arg |-> MaxPages - 1, code |-> "Ok"]
    /\ AllFramesPinned
    /\ free_list = <<>>
    /\ clock_hand = 0
    /\ page_table[MaxPages - 1] = PoolSize - 1

\* C14: a successful fetch_page or new_page leaves the page it returns
\* resident with pin_count >= 1; the pin_count of every resident page is the
\* number of successful fetch_page/new_page calls on it minus the number of
\* successful unpin_page calls since its load; no pin_count is negative.
C14_PinCountIsPinsMinusUnpins ==
    /\ (ret.op \in {"fetch_page", "new_page"} /\ ret.code = "Ok") =>
          /\ ret.arg \in DOMAIN page_table
          /\ frames[page_table[ret.arg]].page.id = ret.arg
          /\ frames[page_table[ret.arg]].page.pin_count >= 1
    /\ \A p \in DOMAIN page_table :
          frames[page_table[p]].page.pin_count = pins[p]
    /\ \A f \in FrameIds : frames[f].page.pin_count >= 0

\* C14 witness: a page fetched while resident and pinned, then unpinned once.
C14_Witness ==
    /\ ret = [op |-> "unpin_page", arg |-> 0, code |-> "Ok"]
    /\ 0 \in DOMAIN page_table
    /\ pins[0] = MaxPin - 1
    /\ pins[0] >= 1
    /\ frames[page_table[0]].page.pin_count = pins[0]

\* C15: at most one frame holds a page with a given id, and the page table
\* maps an id to a frame iff that frame's page has that id.
C15_OneFramePerPage ==
    /\ \A f, g \in FrameIds :
          (f # g /\ frames[f].page.id # INVALID_PAGE_ID)
              => frames[f].page.id # frames[g].page.id
    /\ \A p \in 0 .. MaxPages, f \in FrameIds :
          (p \in DOMAIN page_table /\ page_table[p] = f) <=> frames[f].page.id = p

\* The stored copy of page p does not pass Page::verify_checksum.
CorruptOnDisk(p) ==
    /\ p < next_page_id
    /\ p + 1 <= Len(data_file)
    /\ compute_checksum(p, data_file[p + 1].free_space, data_file[p + 1].payload)
           # data_file[p + 1].checksum

\* What a call handed to its caller in this step, if anything.
HandedOut(p) ==
    /\ ret'.op \in {"fetch_page", "new_page"}
    /\ ret'.code = "Ok"
    /\ ret'.arg = p

\* C16: when the stored copy of a non-resident page does not match its
\* stored checksum, a fetch_page that reads it returns ChecksumMismatch and
\* does not enter the id in the page table; a failed fetch leaves the id out
\* of the page table; and every page a later call hands out is resident under
\* its id with contents that are a fresh page or a copy that passed the
\* checksum test when it was read.
C16_CorruptPageNeverHandedOut ==
    [][/\ \A p \in PageIds \ DOMAIN page_table :
              CorruptOnDisk(p) =>
                  LET r == fetch_page(PoolState, p, FALSE, {})
                  IN /\ r.code \in {"ChecksumMismatch", "NoAvailableFrames"}
                     /\ find_victim(PoolState, {}).found => r.code = "ChecksumMismatch"
                     /\ p \notin DOMAIN r.s.page_table
       /\ (ret'.op = "fetch_page" /\ ret'.code = "ChecksumMismatch")
              => ret'.arg \notin DOMAIN page_table'
       /\ \A p \in PageIds :
              HandedOut(p) =>
                  /\ p \in DOMAIN page_table'
                  /\ frames'[page_table'[p]].page.id = p
                  /\ p \notin DOMAIN page_table =>
                         \/ ret'.op = "new_page" /\
                                frames'[page_table'[p]].page =
                                    [ResetPage(p) EXCEPT !.pin_count = 1]
                         \/ ret'.op = "fetch_page" /\ ~CorruptOnDisk(p) /\
                                PageImage(frames'[page_table'[p]].page) = data_file[p + 1]
      ]_vars

\* C16 witness: fetch_page(0) has just failed the checksum test; the frame it
\* used holds the bytes it read and is back on the free list.
C16_Witness ==
    /\ ret = [op |-> "fetch_page", arg |-> 0, code |-> "ChecksumMismatch"]
    /\ 0 \notin DOMAIN page_table
    /\ CorruptOnDisk(0)
    /\ data_file[1].payload = 0 /\ data_file[1].free_space = PAYLOAD_SIZE
    /\ \E f \in FrameIds : frames[f].page.id = 0

\* C17: after any sequence of buffer pool operations and evictions,
\* dirty_count() is the number of resident pages whose dirty flag is set,
\* which is the length of get_dirty_pages().
C17_DirtyCountExact ==
    /\ dirty_count = Cardinality(DirtyResident)
    /\ \A f \in FrameIds :
          frames[f].page.dirty =>
              /\ frames[f].page.id \in DOMAIN page_table
              /\ page_table[frames[f].page.id] = f

\* C17 witness: one of two dirty pages has just been evicted by new_page.
C17_Witness ==
    /\ ret = [op |-> "new_page", arg |-> MaxPages - 1, code |-> "Ok"]
    /\ dirty_count = 1
    /\ Cardinality(DirtyResident) = 1
    /\ Len(data_file) = MaxPages
    /\ \E p \in PageIds \ DOMAIN page_table :
          data_file[p + 1].checksum # 0

\* C18: delete_page of a resident pinned page returns PagePinned and changes
\* nothing in the page table, the free list, the frames (dirty flags
\* included) and dirty_count; delete_page of a resident page with pin count 0
\* returns Ok, takes the id out of the page table and appends its frame to
\* the free list.
C18_DeletePinnedRefused ==
    [][ret'.op = "delete_page" =>
          LET p == ret'.arg IN
          p \in DOMAIN page_table =>
              IF frames[page_table[p]].page.pin_count > 0
              THEN /\ ret'.code = "PagePinned"
                   /\ UNCHANGED <<page_table, free_list, frames, dirty_count>>
              ELSE /\ ret'.code = "Ok"
                   /\ p \notin DOMAIN page_table'
                   /\ free_list' = Append(free_list, page_table[p])
                   /\ frames'[page_table[p]].page = EmptyPage
      ]_vars

\* C18 witness: page 0 has been deleted after its only pin was released;
\* its frame is reset and is the last of the free list.
C18_Witness ==
    /\ ret = [op |-> "delete_page", arg |-> 0, code |-> "Ok"]
    /\ 0 \notin DOMAIN page_table
    /\ next_page_id = 1
    /\ free_list = <<1, 0>>
    /\ dirty_count = 0
    /\ frames[0].page = EmptyPage

\* C19: flushed_lsn() never decreases in any step of any interleaving of
\* force, force_all, write_txn_commit and append calls.
C19_FlushedLsnNeverDecreases ==
    [][wal'.flushed_lsn >= wal.flushed_lsn]_vars

\* checkpoint_sync's do_checkpoint has returned; the caller is about to get
\* its status.
SyncReturning == tpc["caller"] = "sync" /\ ck["caller"].pc = "ret"

C20_BlockingClearAtReturn == SyncReturning => ~cm.blocking

\* C21: every do_checkpoint call that returns success, whatever its trigger
\* and also when its snapshot was empty, has incremented
\* metrics.checkpoint_count exactly once.
C21_SuccessCountsOnce ==
    \A t \in CkThreads :
        (ck[t].pc = "ret" /\ ck[t].status = "Ok") => ck[t].recorded = 1

\* The background thread has just entered do_checkpoint(Manual).
BgStartsManual == ck["bg"].pc = "begin" /\ ck["bg"].trigger = "Manual"

\* C22: request_checkpoint() never runs the checkpoint in its caller's
\* thread; on a running manager that is not stopped, every request is
\* followed by the background thread entering do_checkpoint with trigger
\* Manual, also when it was made while a checkpoint was in progress.
C22_RequestServed ==
    /\ [](~InCheckpoint("caller"))
    /\ (cm.running /\ cm.checkpoint_requested) ~> BgStartsManual

\* C22 witness: the background thread starts a Manual checkpoint for a
\* request that was made during its previous checkpoint.
C22_Witness ==
    /\ BgStartsManual
    /\ wal.next_lsn >= 2
    /\ tpc["caller"] = "idle"
    /\ ~cm.checkpoint_requested

\* C23: in every step (appends with their rotations, truncate calls) the
\* file of the current segment, if it exists, still exists afterwards, and so
\* does the file of the segment with the next-lower id: truncate deletes
\* neither of them.
C23_TruncateKeepsLastTwo ==
    [][LET cur == wal.current_segment_id
       IN /\ cur \in DOMAIN wal.files => cur \in DOMAIN wal'.files
          /\ (cur - 1) \in DOMAIN wal.files => (cur - 1) \in DOMAIN wal'.files
      ]_vars

\* C23 witness: truncate has removed segment 0 and kept the current segment
\* and the one before it.
C23_Witness ==
    /\ 0 \notin DOMAIN wal.files
    /\ wal.current_segment_id >= 2
    /\ DOMAIN wal.files = {wal.current_segment_id - 1, wal.current_segment_id}
    /\ wal.files[wal.current_segment_id] # <<>>

\* C24: append of a record whose serialized size exceeds segment_size returns
\* an error, and no segment file ever holds the bytes of such a record.
C24_OversizeRejected ==
    /\ (ret.op = "append" /\ ret.arg > SegmentSize) => ret.code # "Ok"
    /\ \A i \in DOMAIN wal.files :
          \A k \in 1 .. Len(wal.files[i]) : wal.files[i][k].size <= SegmentSize

\* C25: flush_pages(ids) writes every dirty page of ids whose write does not
\* fail, also after a failing one, and returns an error exactly when some
\* flush_page failed.
C25_FlushPagesTriesAll ==
    ret.op = "flush_pages" =>
        /\ \A k \in 1 .. Len(ret.arg) :
              (ret.arg[k] \in ret.dirty \ ret.failed) => ret.arg[k] \notin DirtyResident
        /\ ret.code = "Ok" <=>
              (\A k \in 1 .. Len(ret.arg) : ret.arg[k] \notin ret.dirty \cap ret.failed)

\* C26: under any interleaving of allocate_page calls, failing ones included,
\* no two successful calls return the same PageId and every returned id is
\* below page_count().
C26_AllocatedIdsUnique ==
    /\ \A i, j \in 1 .. Len(alloc.returned) :
          i # j => alloc.returned[i] # alloc.returned[j]
    /\ \A i \in 1 .. Len(alloc.returned) : alloc.returned[i] < next_page_id

\* C27: for every record r, of any data length, deserialize(serialize(r))
\* succeeds and yields a record with r's type, txn_id, prev_lsn, page_id,
\* offset and data, whose verify_checksum() is true.
C27_RecordRoundTrip ==
    ret.op = "deserialize" =>
        /\ ret.code = "Ok"
        /\ ret.record.type = ret.arg.type
        /\ ret.record.txn_id = ret.arg.txn_id
        /\ ret.record.prev_lsn = ret.arg.prev_lsn
        /\ ret.record.page_id = ret.arg.page_id
        /\ ret.record.offset = ret.arg.offset
        /\ ret.record.data = ret.arg.data
        /\ verify_checksum(ret.record)

\* The same for the data lengths a uint16 can hold.
C27_ShortRecordRoundTrip ==
    (ret.op = "deserialize" /\ ret.arg.data.len < UINT16_RANGE) =>
        /\ ret.code = "Ok"
        /\ ret.record.type = ret.arg.type
        /\ ret.record.data = ret.arg.data
        /\ verify_checksum(ret.record)

\* C28: DiskManager::open on an existing data file whose size is not a multiple
\* of PAGE_SIZE returns an error; it does not succeed with
\* page_count = floor(size / PAGE_SIZE).
C28_PartialFileRejected ==
    (ret.op = "open" /\ ret.arg % PAGE_SIZE # 0) => ret.code # "Ok"

\* Whenever open succeeds, page_count is the whole number of blocks found.
C28_PageCountIsFloor ==
    (ret.op = "open" /\ ret.code = "Ok") =>
        /\ ret.page_count = ret.arg \div PAGE_SIZE
        /\ next_page_id = ret.page_count

\* C29: should_checkpoint returns DirtyHard when dirty_ratio >= dirty_hard_limit,
\* even within min_interval of the last checkpoint; otherwise nothing within
\* min_interval; otherwise WalSize when wal_size >= max_wal_size; otherwise
\* DirtySoft when dirty_ratio >= dirty_soft_limit; otherwise Timer when
\* max_interval has elapsed; otherwise nothing.
AtHardLimit(in) == in.dirty * 100 >= config_.dirty_hard_limit * in.capacity
AtSoftLimit(in) == in.dirty * 100 >= config_.dirty_soft_limit * in.capacity
TooSoon(in)     == in.since_last < config_.min_interval
WalFull(in)     == in.wal_size >= config_.max_wal_size
TimerDue(in)    == in.since_last >= config_.max_interval

C29_TriggerPriority ==
    ret.op = "should_checkpoint" =>
        LET in == ret.arg
        IN /\ AtHardLimit(in) => ret.code = "DirtyHard"
           /\ (~AtHardLimit(in) /\ TooSoon(in)) => ret.code = "nullopt"
           /\ (~AtHardLimit(in) /\ ~TooSoon(in) /\ WalFull(in)) => ret.code = "WalSize"
           /\ (~AtHardLimit(in) /\ ~TooSoon(in) /\ ~WalFull(in) /\ AtSoftLimit(in))
                  => ret.code = "DirtySoft"
           /\ (~AtHardLimit(in) /\ ~TooSoon(in) /\ ~WalFull(in) /\ ~AtSoftLimit(in)
                  /\ TimerDue(in)) => ret.code = "Timer"
           /\ (~AtHardLimit(in) /\ ~TooSoon(in) /\ ~WalFull(in) /\ ~AtSoftLimit(in)
                  /\ ~TimerDue(in)) => ret.code = "nullopt"

\* The hard limit reached within min_interval of the last checkpoint, the WAL
\* full as well: DirtyHard is returned.
C29_Witness ==
    /\ ret.op = "should_checkpoint"
    /\ AtHardLimit(ret.arg) /\ TooSoon(ret.arg) /\ WalFull(ret.arg)
    /\ ret.code = "DirtyHard"

\* C30: with an empty free list, the sweep evicts the first frame, in cyclic
\* order from clock_hand, that is resident, unpinned and unreferenced when the
\* hand reaches it; it clears the referenced bit of every unpinned resident
\* frame it passes, so a referenced frame is evicted only on the second pass;
\* afterwards clock_hand = (victim + 1) mod pool_size; at most 2 * pool_size
\* frames are visited.
\* The last call searched for a victim and evicted the page of frame v.
SweepEvicted(v) ==
    /\ ret.op \in {"new_page", "fetch_page"} /\ ret.full
    /\ ret.before[v].page.id # INVALID_PAGE_ID
    /\ frames[v].page.id # ret.before[v].page.id

\* The frame under the hand at its k-th visit, k = 0 .. 2 * pool_size - 1.
VisitIdx(k) == (ret.hand + (k % PoolSize)) % PoolSize

Sweepable(f) ==
    ret.before[f].page.id # INVALID_PAGE_ID /\ ret.before[f].page.pin_count = 0

\* At visit k the frame is resident, unpinned and unreferenced: every bit of
\* an unpinned resident frame has been cleared once the first pass is over.
CandidateAt(k) ==
    Sweepable(VisitIdx(k)) /\ (k >= PoolSize \/ ~ret.before[VisitIdx(k)].referenced)

\* The visit at which frame v is taken: on the first pass if it was
\* unreferenced, on the second otherwise.
VictimVisit(v) ==
    LET pos == (v - ret.hand + PoolSize) % PoolSize
    IN IF ret.before[v].referenced THEN PoolSize + pos ELSE pos

\* The write-back of the page in frame f failed: it is still there, dirty.
WriteBackFailed(f) ==
    ret.before[f].page.dirty /\ frames[f].page = ret.before[f].page

PassedFramesCleared(v) ==
    \A k \in 0 .. (VictimVisit(v) - 1) :
        (Sweepable(VisitIdx(k)) /\ VisitIdx(k) # v) => ~frames[VisitIdx(k)].referenced

UnvisitedFramesKept(v) ==
    \A f \in FrameIds :
        (f # v /\ \A k \in 0 .. (VictimVisit(v) - 1) : VisitIdx(k) # f)
            => frames[f].referenced = ret.before[f].referenced

VisitsBounded ==
    \A failW \in SUBSET DirtyResident :
        clock_sweep(PoolState, failW).visited <= 2 * PoolSize

C30_VictimIsFirstUnreferenced ==
    /\ VisitsBounded
    /\ \A v \in FrameIds :
           SweepEvicted(v) =>
               /\ Sweepable(v)
               /\ \A k \in 0 .. (VictimVisit(v) - 1) : ~CandidateAt(k)
               /\ PassedFramesCleared(v)
               /\ UnvisitedFramesKept(v)
               /\ clock_hand = (v + 1) % PoolSize

\* C30 as the code has it: a candidate whose write-back fails is left in place
\* and the search goes on; the victim is the first candidate whose eviction
\* succeeds.
C30_VictimIsFirstEvictable ==
    /\ VisitsBounded
    /\ \A v \in FrameIds :
           SweepEvicted(v) =>
               /\ Sweepable(v)
               /\ \A k \in 0 .. (VictimVisit(v) - 1) :
                      CandidateAt(k) => WriteBackFailed(VisitIdx(k))
               /\ PassedFramesCleared(v)
               /\ UnvisitedFramesKept(v)
               /\ clock_hand = (v + 1) % PoolSize

\* A sweep that cleared the bit of a referenced frame, came round and evicted
\* it on the second pass.
C30_Witness ==
    \E v \in FrameIds :
        /\ SweepEvicted(v) /\ ret.code = "Ok"
        /\ ret.before[v].referenced
        /\ \E f \in FrameIds : f # v /\ Sweepable(f) /\ ret.before[f].referenced
                                 /\ ~frames[f].referenced
        /\ clock_hand = (v + 1) % PoolSize

\* C31: truncate(lsn) never deletes a segment file that holds a record with
\* LSN >= lsn: the segment of a checkpoint's CheckpointBegin record and all
\* later segments survive truncate(begin_lsn), however many rotations other
\* threads caused in between.
HoldsFrom(recs, lsn) == \E k \in 1 .. Len(recs) : recs[k].lsn >= lsn

C31_TruncateKeepsFromLsn ==
    ret.op = "truncate" =>
        \A i \in DOMAIN ret.before :
            HoldsFrom(ret.before[i], ret.arg) => i \in DOMAIN wal.files

\* C32: a page whose disk write fails in flush_pages (the flush of a
\* checkpoint batch) stays resident, dirty and counted in dirty_count, so
\* the next get_dirty_pages() snapshot holds it again.
C32_FailedWriteStaysDirty ==
    ret.op = "flush_pages" =>
        /\ \A k \in 1 .. Len(ret.arg) :
               ret.arg[k] \in (ret.dirty \cap ret.failed) =>
                   /\ ret.arg[k] \in DOMAIN page_table
                   /\ frames[page_table[ret.arg[k]]].page.dirty
        /\ dirty_count = Cardinality(DirtyResident)

\* flush_pages failed on a dirty page after writing another one.
C32_Witness ==
    /\ ret.op = "flush_pages" /\ ret.code = "WriteError"
    /\ \E k \in 1 .. Len(ret.arg) :
           ret.arg[k] \in (ret.dirty \cap ret.failed) /\ ret.arg[k] \in DirtyResident
    /\ \E k \in 1 .. Len(ret.arg) :
           ret.arg[k] \in ret.dirty /\ ret.arg[k] \notin DirtyResident

\* C33: stop() terminates under fair scheduling: once stop() has cleared
\* running_ the background thread leaves its loop, join returns, the Shutdown
\* checkpoint completes and stop() returns, whatever the background thread and
\* the writers were doing; a stop() on a manager that is not running and a
\* start() on a running one change nothing.
StopCalled == tpc["main"] \in {"stop_unblock", "stop_join", "stop_ckpt"}
StopReturned == tpc["main"] = "stopped" /\ tpc["bg"] = "off"

C33_StopTerminates ==
    /\ StopCalled ~> StopReturned
    /\ [][(ret' # ret /\ ret'.op \in {"start", "stop"}
               /\ ret'.arg = (ret'.op = "start"))
             => UNCHANGED <<cm, tpc, ck, walVars, poolVars>>]_vars

\* stop() has returned after interrupting a background checkpoint and
\* running its own; it was then called once more.
C33_Witness ==
    /\ StopReturned /\ ~cm.running /\ ~cm.checkpoint_in_progress
    /\ ret.op = "stop" /\ ret.arg = FALSE
    /\ wal.next_lsn >= 4

\* C34: after successful appends every record lies wholly inside one segment
\* file; append rotates to segment id + 1, offset 0, before writing exactly
\* when offset + serialized size > segment_size; the segment being written is
\* the highest-numbered segment file of the directory.
WritingHighestSegment ==
    /\ wal.current_segment_id \in DOMAIN wal.files
    /\ \A i \in DOMAIN wal.files : i <= wal.current_segment_id
    /\ wal.current_segment_pos = file_size(wal, wal.current_segment_id)

RecordsInOneSegment ==
    \A i, j \in DOMAIN wal.files :
        \A a \in 1 .. Len(wal.files[i]) : \A b \in 1 .. Len(wal.files[j]) :
            wal.files[i][a].lsn = wal.files[j][b].lsn => (i = j /\ a = b)

C34_RotateBeforeOverflow ==
    /\ ~append_failed => WritingHighestSegment
    /\ RecordsInOneSegment
    /\ (ret.op = "append" /\ ret.code = "Ok") =>
           LET cur  == wal.current_segment_id
               last == wal.files[cur][Len(wal.files[cur])]
           IN /\ wal.files[cur] # <<>> /\ last.size = ret.arg
              /\ last.lsn = appended[Len(appended)]
              /\ IF ret.pos + ret.arg > SegmentSize
                 THEN cur = ret.id + 1 /\ wal.current_segment_pos = ret.arg
                 ELSE cur = ret.id /\ wal.current_segment_pos = ret.pos + ret.arg

\* A record that filled its segment exactly was written without a rotation,
\* and an earlier append did rotate.
C34_Witness ==
    /\ ret.op = "append" /\ ret.code = "Ok" /\ ~append_failed
    /\ ret.pos + ret.arg = SegmentSize
    /\ wal.current_segment_id = ret.id /\ ret.id >= 1
    /\ wal.current_segment_pos = SegmentSize

\* C35: after open() and any sequence of successful appends, rotations and
\* truncates, size() (total_size_) is the sum of the sizes of the segment
\* files present in the WAL directory.
C35_TotalSizeIsSumOfSegments ==
    ~append_failed => wal.total_size = FreedBytes(wal, DOMAIN wal.files)

\* A reopened log that has since rotated and been truncated.
C35_Witness ==
    /\ ~append_failed /\ ret.op = "truncate"
    /\ 0 \notin DOMAIN wal.files /\ wal.total_size > 0
    /\ wal.next_lsn < Len(appended)

\* C37: after a WAL directory that holds records is closed and opened again
\* by a new WriteAheadLog, every LSN assigned to a later append is greater
\* than every LSN already stored in the log.
C37_LsnAboveStoredAfterReopen ==
    (ret.op = "append" /\ ret.code = "Ok") =>
        \A i \in DOMAIN ret.stored : \A k \in 1 .. Len(ret.stored[i]) :
            ret.stored[i][k].lsn < ret.arg

\* C36: every PageId returned by a successful new_page can be fetched later:
\* after the page was released clean and evicted by the sweep, fetch_page(id)
\* succeeds and returns a page with that id; it fails neither with
\* ChecksumMismatch nor with any other error (a pool whose frames are all
\* pinned apart).
C36_CreatedPageFetchable ==
    (ret.op = "fetch_page" /\ last_written[ret.arg] # NoPage) =>
        \/ /\ ret.code = "Ok"
           /\ ret.arg \in DOMAIN page_table
           /\ frames[page_table[ret.arg]].page.id = ret.arg
        \/ ret.code = "NoAvailableFrames"

\* C38: a fetch_page(id) that fails with InvalidPageId, a read error or
\* ChecksumMismatch leaves the set of resident pages, their pin counts and
\* their dirty flags as they were, also when the pool had no free frame.
ResidentPages ==
    [p \in DOMAIN page_table |->
        [pin_count |-> frames[page_table[p]].page.pin_count,
         dirty     |-> frames[page_table[p]].page.dirty]]

C38_FailedFetchKeepsResidents ==
    [][(ret'.op = "fetch_page"
          /\ ret'.code \in {"InvalidPageId", "ReadError", "ChecksumMismatch"})
         => ResidentPages' = ResidentPages]_vars

\* C39: a new_page() that fails with NoAvailableFrames leaves the disk manager
\* as it was: page_count() and the length of the data file are unchanged, so
\* the failed creation consumes no PageId.
C39_FailedNewPageKeepsDisk ==
    [][(ret'.op = "new_page" /\ ret'.code = "NoAvailableFrames")
         => /\ next_page_id' = next_page_id
            /\ Len(data_file') = Len(data_file)]_vars

\* C40: after every buffer pool operation, failed ones included, every frame
\* index 0 .. pool_size - 1 is in exactly one place, once in the free list or
\* mapped by exactly one page-table entry, so that
\* |free list| + |page table| = pool_size.
FreeSlots(f) == {i \in DOMAIN free_list : free_list[i] = f}
MappedBy(f) == {p \in DOMAIN page_table : page_table[p] = f}

C40_FramesAccounted ==
    /\ \A f \in FrameIds : Cardinality(FreeSlots(f)) + Cardinality(MappedBy(f)) = 1
    /\ \A i \in DOMAIN free_list : free_list[i] \in FrameIds
    /\ \A p \in DOMAIN page_table : page_table[p] \in FrameIds
    /\ Len(free_list) + Cardinality(DOMAIN page_table) = PoolSize

\* A new_page found no frame although an unpinned page is resident: the
\* write-back of that dirty page failed during the sweep.
C40_Witness ==
    /\ ret.op = "new_page" /\ ret.code = "NoAvailableFrames"
    /\ \E f \in FrameIds : frames[f].page.pin_count = 0 /\ frames[f].page.dirty
    /\ free_list = <<>>

====
